---- MODULE Spec2Model ----
(***************************************************************************)
(* A model of lapinozz/png-parser: the zlib/DEFLATE decompressor of        *)
(* src/inflater.hpp and the PNG reader of src/png-parser.cpp.              *)
(*                                                                         *)
(* The program is sequential.  Every function of the source is an operator *)
(* on records that hold the function's locals; the specifications below    *)
(* run those operators step by step so that the intermediate states the    *)
(* properties speak of (a block header just read, a back-reference being   *)
(* copied, a pass just reconstructed) are states of the model.             *)
(*                                                                         *)
(* Sequences are 1-based: the C++ element v[i] is v[i + 1] here.           *)
(***************************************************************************)
EXTENDS Integers, Sequences, FiniteSets, TLC

VARIABLES
    \* ---- inflate(), src/inflater.hpp ----
    data,          \* BitStream::data, the input bytes
    byteOffset,    \* BitStream::offset.byteOffset
    bitOffset,     \* BitStream::offset.bitOffset
    outputData,    \* the output vector
    ipc,           \* where inflate() stands
    err,           \* the message inflate() wrote to std::cerr ("" for none)
    ub,            \* the undefined operation inflate() ran into ("" for none)
    BFINAL,        \* the current block's BFINAL
    BTYPE,         \* the current block's BTYPE (-1 before the first block)
    LEN,           \* the last stored block's LEN
    NLEN,          \* the last stored block's NLEN
    lengths,       \* the code lengths the last dynamic block declared
    HLIT,          \* the last dynamic block's HLIT
    HDIST,         \* the last dynamic block's HDIST
    dynamicLengthTable,    \* the last dynamic block's literal/length table
    dynamicDistanceTable,  \* the last dynamic block's distance table
    copy,          \* the last back-reference: [length, distance, dst, src]
    message,       \* the symbols whose codes make up data, when data was
                   \* encoded with the code of lengths (<<>> otherwise)
    \* ---- readPng(), src/png-parser.cpp: the stream and the chunks ----
    file,          \* the bytes of the stream
    fpos,          \* the stream's read position
    good,          \* the stream's state, as 'while (stream)' tests it
    chunks,        \* the vector of the chunks read
    perr,          \* the message readPng() wrote to std::cerr ("" for none)
    compressedData,
    \* ---- readPng(): the header and what follows inflate() ----
    pngInfo,       \* the PngInfo readHeaderChunk returned
    paletteR, paletteG, paletteB, paletteA,
    transR, transG, transB,   \* -1: the optional is empty
    decompressedData,
    scaleV,        \* scale
    imageData,
    pos,           \* the index nextByte reads at
    pass,          \* the pass the loop over the passes is at
    passStart,     \* pos when readRawImage was last entered
    passCall,      \* the arguments of the last call of readRawImage
    passData,      \* the buffer of that call after the loop that unfilters
    writes,        \* writes[k + 1]: how often imageData[k] was assigned by readRawImage
    ppc,           \* where readPng() stands
    pub            \* the undefined operation readPng() ran into ("" for none)

infVars == <<data, byteOffset, bitOffset, outputData, ipc, err, ub, BFINAL, BTYPE,
             LEN, NLEN, lengths, HLIT, HDIST, dynamicLengthTable,
             dynamicDistanceTable, copy, message>>

streamVars == <<file, fpos, good, chunks, perr, compressedData>>

rasterVars == <<pngInfo, paletteR, paletteG, paletteB, paletteA, transR, transG,
                transB, decompressedData, scaleV, imageData, pos, pass, passStart,
                passCall, passData, writes, ppc, pub>>

vars == <<infVars, streamVars, rasterVars>>

(***************************************************************************)
(* Bounds of the model                                                     *)
(***************************************************************************)
\* the longest output inflate() is followed to
MaxOut == 12
\* the most steps a call of inflate() inside readPng() is followed for
MaxSteps == 64
\* the longest LEN and the most bytes after NLEN of the stored blocks tried
MaxStoredLen == 2
\* the longest body of the compressed blocks tried
MaxHuffLen == 2

\* the bytes that follow NLEN in the stored blocks tried
StoredBytes == {170, 85}
\* the bytes the bodies of the compressed blocks tried are made of
HuffBytes == 0..15

(***************************************************************************)
(* Machine arithmetic                                                      *)
(***************************************************************************)
Min(a, b) == IF a <= b THEN a ELSE b
Max(a, b) == IF a >= b THEN a ELSE b

\* x << n and x >> n on non-negative ints
Shl(x, n) == x * (2 ^ n)
Shr(x, n) == x \div (2 ^ n)
\* x & (0xFF >> (8 - n)): the low n bits of a byte
LowBits(x, n) == x % (2 ^ n)

RECURSIVE BitOr(_, _)
BitOr(a, b) ==
    IF a = 0 THEN b
    ELSE IF b = 0 THEN a
    ELSE (IF a % 2 = 1 \/ b % 2 = 1 THEN 1 ELSE 0) + 2 * BitOr(a \div 2, b \div 2)

\* ~x of a uint16_t operand: the operand is promoted to int before the
\* complement, so the result is the negative int -x - 1
BitNotInt(x) == -x - 1

\* conversion of an int to an unsigned type of w bits
Trunc(x, w) == x % (2 ^ w)

(***************************************************************************)
(* BitStream                                                               *)
(***************************************************************************)
ByteAt(s, i) == s.data[i + 1]

RECURSIVE readWholeBytes(_, _, _, _, _)
\* the loop 'while (count >= 8)' of readBits; eof: it returned from inside
readWholeBytes(s, byte, count, shift, out) ==
    IF count < 8 THEN [eof |-> FALSE, byte |-> byte, count |-> count,
                       shift |-> shift, out |-> out]
    ELSE IF byte >= Len(s.data)
         THEN [eof |-> TRUE, byte |-> byte, count |-> count,
               shift |-> shift, out |-> out]
         ELSE readWholeBytes(s, byte + 1, count - 8, shift + 8,
                             BitOr(out, Shl(ByteAt(s, byte), shift)))

\* the bits readBits takes from a byte that was partly read before
partialBits(s, count) == IF s.bitOffset # 0 THEN Min(8 - s.bitOffset, count) ELSE 0

\* out after the block 'if (offset.bitOffset != 0)' that takes toRead bits
partialOut(s, toRead) ==
    IF s.bitOffset # 0
    THEN LowBits(Trunc(Shr(ByteAt(s, s.byteOffset), s.bitOffset), 8), toRead)
    ELSE 0

\* the end of readBits, w being the result of the loop over the whole bytes
\* and bit1 the bitOffset the loop was entered with
readLastBits(s, w, bit1, width) ==
    IF ~w.eof /\ w.count > 0 /\ w.byte < Len(s.data)
    THEN [val |-> Trunc(BitOr(w.out, Shl(LowBits(ByteAt(s, w.byte), w.count), w.shift)),
                        width),
          s   |-> [s EXCEPT !.byteOffset = w.byte, !.bitOffset = w.count]]
    ELSE [val |-> Trunc(w.out, width),
          s   |-> [s EXCEPT !.byteOffset = w.byte, !.bitOffset = bit1]]

\* readBits once the partly read byte gave toRead bits
readAfterPartial(s, count, width, toRead) ==
    readLastBits(s,
                 readWholeBytes(s,
                                IF s.bitOffset + toRead = 8 THEN s.byteOffset + 1
                                                            ELSE s.byteOffset,
                                count - toRead, toRead, partialOut(s, toRead)),
                 IF s.bitOffset + toRead = 8 THEN 0 ELSE s.bitOffset + toRead,
                 width)

\* readBits<I>(count), I of 'width' bits: [val, s]
readBits(s, count, width) ==
    IF s.byteOffset >= Len(s.data) THEN [val |-> 0, s |-> s]
    ELSE readAfterPartial(s, count, width, partialBits(s, count))


roundPosition(s) ==
    IF s.bitOffset > 0
    THEN [s EXCEPT !.bitOffset = 0, !.byteOffset = s.byteOffset + 1]
    ELSE s

(***************************************************************************)
(* Huffman tables                                                          *)
(***************************************************************************)
\* a HuffmanCode {value, bits}; the value-initialised one is {0, 0}
HuffmanCode(v, b) == [value |-> v, bits |-> b]

\* std::ranges::max(lengths)
SeqMax(q) ==
    LET S == {q[i] : i \in 1..Len(q)}
    IN  CHOOSE m \in S : \A k \in S : k <= m

RECURSIVE Repeat(_, _)
\* a vector of n copies of v
Repeat(n, v) ==
    IF n = 0 THEN <<>>
    ELSE IF n = 1 THEN <<v>>
    ELSE IF n % 2 = 0 THEN (LET h == Repeat(n \div 2, v) IN h \o h)
    ELSE <<v>> \o Repeat(n - 1, v)

(***************************************************************************)
(* The loops of the source over a table or a buffer are written as         *)
(* recursions that split the index range [lo, hi] in two halves and run    *)
(* the first half before the second, so that the evaluation's depth is the *)
(* logarithm of the range; the result is that of the loop run from lo to   *)
(* hi in order.                                                            *)
(***************************************************************************)
Mid(lo, hi) == (lo + hi) \div 2

RECURSIVE countLengths(_, _, _)
\* lengthCount after 'for (auto l : lengths) lengthCount[l]++' and
\* 'lengthCount[0] = 0', as the vector <<lengthCount[0], ..., lengthCount[maxLength]>>
countLengths(lens, l, maxLength) ==
    IF l > maxLength THEN <<>>
    ELSE <<IF l = 0 THEN 0
           ELSE Trunc(Cardinality({i \in 1..Len(lens) : lens[i] = l}), 16)>>
         \o countLengths(lens, l + 1, maxLength)

RECURSIVE nextCodes(_, _, _, _, _)
\* for (bits = 1; bits <= maxLength; bits++) code = (code + lengthCount[bits - 1]) << 1
nextCodes(lengthCount, maxLength, bits, code, nextCode) ==
    IF bits > maxLength THEN nextCode
    ELSE LET c == Trunc(Shl(code + lengthCount[bits], 1), 16)
         IN  nextCodes(lengthCount, maxLength, bits + 1, c, Append(nextCode, c))

\* one turn of the loop over the symbols, for symbol i - 1:
\* decodeTable[nextCode[len]++ << (maxLength - len)] = {x, len};
\* ub: the slot is outside the table
placeCode(lens, maxLength, i, st) ==
    IF lens[i] = 0 THEN st
    ELSE LET len  == lens[i]
             code == st.nextCode[len + 1]
             slot == Shl(code, maxLength - len)
         IN  IF slot >= Len(st.tbl)
             THEN [st EXCEPT !.ub = TRUE]
             ELSE [st EXCEPT !.nextCode[len + 1] = Trunc(@ + 1, 16),
                             !.tbl[slot + 1] = HuffmanCode(i - 1, len)]

RECURSIVE placeCodes(_, _, _, _, _)
\* the loop over the symbols lo - 1 .. hi - 1; it stops at an out-of-bounds write
placeCodes(lens, maxLength, lo, hi, st) ==
    IF lo > hi THEN st
    ELSE IF lo = hi THEN placeCode(lens, maxLength, lo, st)
    ELSE LET first == placeCodes(lens, maxLength, lo, Mid(lo, hi), st)
         IN  IF first.ub THEN first
             ELSE placeCodes(lens, maxLength, Mid(lo, hi) + 1, hi, first)

RECURSIVE fillCodes(_, _, _, _)
\* the loop that gives a slot with bits == 0 the last filled slot before it,
\* over the slots lo - 1 .. hi - 1, entered with lastCode
fillCodes(decodeTable, lo, hi, lastCode) ==
    IF lo = hi
    THEN <<IF decodeTable[lo].bits = 0 THEN lastCode ELSE decodeTable[lo]>>
    ELSE LET first == fillCodes(decodeTable, lo, Mid(lo, hi), lastCode)
         IN  first \o fillCodes(decodeTable, Mid(lo, hi) + 1, hi, first[Len(first)])

\* the table once the symbols are placed (placed: the result of placeCodes)
fillTable(maxLength, placed) ==
    [maxBits |-> maxLength,
     tbl     |-> fillCodes(placed.tbl, 1, Len(placed.tbl), placed.tbl[1]),
     ub      |-> placed.ub]

\* the table of the given lengths whose longest is maxLength
makeTableOf(lens, maxLength) ==
    fillTable(maxLength,
              placeCodes(lens, maxLength, 1, Len(lens),
                         [nextCode |-> nextCodes(countLengths(lens, 0, maxLength),
                                                 maxLength, 1, 0, <<0>>),
                          tbl      |-> Repeat(2 ^ maxLength, HuffmanCode(0, 0)),
                          ub       |-> FALSE]))

\* HuffmanTable::makeTable(lengths): [maxBits, tbl, ub]; tbl[i + 1] is the
\* C++ decodeTable[i]; ub: a write decodeTable[...] = {x, len} was out of bounds
makeTable(lens) == makeTableOf(lens, SeqMax(lens))

RECURSIVE reverseLoop(_, _, _)
reverseLoop(v, r, s) ==
    IF v = 0 THEN Trunc(Shl(r, s), 16)
    ELSE reverseLoop(v \div 2, BitOr(Trunc(Shl(r, 1), 16), v % 2), s - 1)

\* reverseBits<uint16_t>(v)
reverseBits(v) == reverseLoop(v \div 2, v, 15)

\* reverseBits<uint16_t>(v, maxBits)
reverseBitsN(v, maxBits) == Shr(reverseBits(v), 16 - maxBits)

RECURSIVE invertLoop(_, _, _, _)
\* for (x = lo; x <= hi; x++) newTable[reverseBits(x, maxBits)] = table[x]
invertLoop(table, lo, hi, newTbl) ==
    IF lo = hi
    THEN [newTbl EXCEPT ![reverseBitsN(lo, table.maxBits) + 1] = table.tbl[lo + 1]]
    ELSE LET first == invertLoop(table, lo, Mid(lo, hi), newTbl)
         IN  IF Len(first) # Len(newTbl) THEN first
             ELSE invertLoop(table, Mid(lo, hi) + 1, hi, first)

\* the table of a decoder that leaves the slots where makeTable put them
invertTableBitsKept(table) ==
    [table EXCEPT !.tbl = table.tbl]

\* invertTableBits(table)
invertTableBits(table) ==
    [table EXCEPT !.tbl = invertLoop(table, 0, Len(table.tbl) - 1, table.tbl)]

\* decodeCode(table, bits)
decodeCode(table, bits) == table.tbl[(bits % (2 ^ table.maxBits)) + 1]

\* the end of readHuffmanCode: the offset moves by the bits of the code found
skipCode(s, code) ==
    [val |-> code.value,
     s   |-> [s EXCEPT !.bitOffset = (s.bitOffset + code.bits) % 8,
                       !.byteOffset = s.byteOffset + (s.bitOffset + code.bits) \div 8]]

\* BitStream::readHuffmanCode(table): [val, s]
readHuffmanCode(s, table) ==
    skipCode(s, decodeCode(table, readBits(s, table.maxBits, 16).val))

staticLengthTable ==
    invertTableBits(makeTable(Repeat(144, 8) \o Repeat(112, 9) \o Repeat(24, 7) \o Repeat(8, 8)))

staticDistanceTable == invertTableBits(makeTable(Repeat(32, 5)))

\* Alphabet::Length and Alphabet::Distance: <<extraBits, baseLength>>
LengthOffest == 257

AlphabetLength ==
    << <<0, 3>>, <<0, 4>>, <<0, 5>>, <<0, 6>>, <<0, 7>>, <<0, 8>>, <<0, 9>>, <<0, 10>>,
       <<1, 11>>, <<1, 13>>, <<1, 15>>, <<1, 17>>, <<2, 19>>, <<2, 23>>, <<2, 27>>,
       <<2, 31>>, <<3, 35>>, <<3, 43>>, <<3, 51>>, <<3, 59>>, <<4, 67>>, <<4, 83>>,
       <<4, 99>>, <<4, 115>>, <<5, 131>>, <<5, 163>>, <<5, 195>>, <<5, 227>>, <<0, 258>> >>

AlphabetDistance ==
    << <<0, 1>>, <<0, 2>>, <<0, 3>>, <<0, 4>>, <<1, 5>>, <<1, 7>>, <<2, 9>>, <<2, 13>>,
       <<3, 17>>, <<3, 25>>, <<4, 33>>, <<4, 49>>, <<5, 65>>, <<5, 97>>, <<6, 129>>,
       <<6, 193>>, <<7, 257>>, <<7, 385>>, <<8, 513>>, <<8, 769>>, <<9, 1025>>,
       <<9, 1537>>, <<10, 2049>>, <<10, 3073>>, <<11, 4097>>, <<11, 6145>>,
       <<12, 8193>>, <<12, 12289>>, <<13, 16385>>, <<13, 24577>> >>

permutations == <<16, 17, 18, 0, 8, 7, 9, 6, 10, 5, 11, 4, 12, 3, 13, 2, 14, 1, 15>>

(***************************************************************************)
(* inflate(): the state is the record of its locals; every step operator   *)
(* takes the state before a part of the function and gives the state after *)
(* it.  ipc: "header" (before the zlib header), "block" (before a block    *)
(* header), "stored", "dynamic" (the block header is read), "symbol" (in   *)
(* the loop over the symbols of a block), "done" (outputData returned),    *)
(* "failed" (std::nullopt returned), "undefined" (an operation whose       *)
(* behaviour is undefined was run: ub names it).                           *)
(***************************************************************************)
EmptyTable == [maxBits |-> 0, tbl |-> <<>>, ub |-> FALSE]
NoCopy == [length |-> 0, distance |-> 0, dst |-> 0, src |-> 0]

\* the state when inflate(input) is entered
inflateEntry(input) ==
    [data |-> input, byteOffset |-> 0, bitOffset |-> 0, outputData |-> <<>>,
     ipc |-> "header", err |-> "", ub |-> "", BFINAL |-> 0, BTYPE |-> -1,
     LEN |-> 0, NLEN |-> 0, lengths |-> <<>>, HLIT |-> 0, HDIST |-> 0,
     dynamicLengthTable |-> EmptyTable, dynamicDistanceTable |-> EmptyTable,
     copy |-> NoCopy]

\* return std::nullopt after a message on std::cerr
Fail(s, msg) == [s EXCEPT !.ipc = "failed", !.err = msg]
Undefined(s, what) == [s EXCEPT !.ipc = "undefined", !.ub = what]
\* the end of a block: 'if (BFINAL) break;'
EndBlock(s) == [s EXCEPT !.ipc = IF s.BFINAL # 0 THEN "done" ELSE "block"]

(***************************************************************************)
(* A step that reads several fields is a chain of operators: each takes    *)
(* the fields read so far and r, the result [val, s] of the next read.     *)
(***************************************************************************)

\* the checks of a decoder that takes any FCHECK
headerFlagsAnyCheck(s, CMF, FCHECK, FDICT, FLEVEL) ==
    IF FDICT # 0 THEN Fail(s, "Dictionaries not supported")
    ELSE [s EXCEPT !.ipc = "block"]

\* the checks after FLEVEL is read
headerFlags(s, CMF, FCHECK, FDICT, FLEVEL) ==
    IF FDICT # 0 THEN Fail(s, "Dictionaries not supported")
    ELSE IF (Shl(Trunc(CMF, 16), 8)
             + BitOr(BitOr(Shl(FLEVEL, 6), Shl(FDICT, 5)), FCHECK)) % 31 # 0
         THEN Fail(s, "FCHECK fail")
         ELSE [s EXCEPT !.ipc = "block"]

headerFLEVEL(CMF, FCHECK, FDICT, r) == headerFlags(r.s, CMF, FCHECK, FDICT, r.val)

headerFDICT(CMF, FCHECK, r) == headerFLEVEL(CMF, FCHECK, r.val, readBits(r.s, 2, 8))

headerFCHECK(CMF, r) == headerFDICT(CMF, r.val, readBits(r.s, 1, 8))

\* the checks after CM and CINFO are read
headerMethod(s, CM, CINFO) ==
    IF CM # 8 THEN Fail(s, "Unsupported compression method")
    ELSE IF CINFO > 7 THEN Fail(s, "Invalid window size")
    ELSE headerFCHECK(BitOr(Shl(CINFO, 4), CM), readBits(s, 5, 8))

headerCINFO(CM, r) == headerMethod(r.s, CM, r.val)

headerCM(r) == headerCINFO(r.val, readBits(r.s, 4, 8))

\* the zlib header
stepHeader(s) == headerCM(readBits(s, 4, 8))

\* the branch BTYPE selects
blockBranch(btype) ==
    IF btype = 0 THEN "stored" ELSE IF btype = 2 THEN "dynamic" ELSE "symbol"

blockBTYPE(bfinal, r) ==
    [r.s EXCEPT !.BFINAL = bfinal, !.BTYPE = r.val, !.ipc = blockBranch(r.val)]

blockBFINAL(r) == blockBTYPE(r.val, readBits(r.s, 2, 8))

\* BFINAL, BTYPE and the choice of the branch
stepBlock(s) == blockBFINAL(readBits(s, 1, 8))

\* 'LEN != ~NLEN': both operands are promoted to int
lengthMismatch(len, nlen) == len # BitNotInt(nlen)

\* a block of raw data once LEN and NLEN are read
storedData(t) ==
    IF lengthMismatch(t.LEN, t.NLEN) THEN Fail(t, "invalid raw block length")
    ELSE IF t.byteOffset + t.LEN > Len(t.data)
         THEN Undefined(t, "subspan past the end of the input")
         ELSE EndBlock([t EXCEPT
                  !.outputData = @ \o SubSeq(t.data, t.byteOffset + 1,
                                             t.byteOffset + t.LEN),
                  !.byteOffset = @ + t.LEN])

storedNLEN(len, r) == storedData([r.s EXCEPT !.LEN = len, !.NLEN = r.val])

storedLEN(r) == storedNLEN(r.val, readBits(r.s, 16, 16))

\* a block of raw data
stepStored(s) == storedLEN(readBits(roundPosition(s), 16, 16))

codeLenghtRead(x, HCLEN, codeLenght, r) ==
    [s |-> r.s, x |-> x + 1,
     codeLenght |-> [codeLenght EXCEPT ![permutations[x + 1] + 1] = r.val]]

RECURSIVE readCodeLengths(_, _, _, _)
\* for (x = 0; x < HCLEN; x++) codeLenght[permutations[x]] = stream.readBits(3)
readCodeLengths(s, x, HCLEN, codeLenght) ==
    IF x >= HCLEN THEN [s |-> s, codeLenght |-> codeLenght]
    ELSE LET n == codeLenghtRead(x, HCLEN, codeLenght, readBits(s, 3, 8))
         IN  readCodeLengths(n.s, n.x, HCLEN, n.codeLenght)

\* code 16: repeatLength copies of vector.back()
repeatLast(st, r) ==
    IF st.vector = <<>>
    THEN [st EXCEPT !.s = r.s, !.ub = TRUE]
    ELSE [st EXCEPT !.s = r.s,
                    !.vector = @ \o Repeat(r.val + 3, st.vector[Len(st.vector)])]

\* codes 17 and 18: repeatLength zeros
repeatZero(st, r, base) == [st EXCEPT !.s = r.s, !.vector = @ \o Repeat(r.val + base, 0)]

\* the branches of the loop of codeDecode on the code h.val
codeDecodeCode(st, h) ==
    IF h.val >= 0 /\ h.val <= 15 THEN [st EXCEPT !.s = h.s, !.vector = Append(@, h.val)]
    ELSE IF h.val = 16 THEN repeatLast(st, readBits(h.s, 2, 8))
    ELSE IF h.val = 17 THEN repeatZero(st, readBits(h.s, 3, 8), 3)
    ELSE IF h.val = 18 THEN repeatZero(st, readBits(h.s, 7, 8), 11)
    ELSE [st EXCEPT !.s = h.s]

\* one turn of the loop of codeDecode: [s, vector, ub]
codeDecodeOne(st, codeTable) == codeDecodeCode(st, readHuffmanCode(st.s, codeTable))

RECURSIVE codeDecodeLoop(_, _, _, _)
\* at most n turns of 'while (vector.size() < count)'; every turn adds to
\* the vector, so count turns are the whole loop
codeDecodeLoop(st, codeTable, count, n) ==
    IF st.ub \/ Len(st.vector) >= count \/ n = 0 THEN st
    ELSE IF n = 1 THEN codeDecodeOne(st, codeTable)
    ELSE LET first == codeDecodeLoop(st, codeTable, count, n \div 2)
         IN  IF first.ub \/ Len(first.vector) >= count THEN first
             ELSE codeDecodeLoop(first, codeTable, count, n - n \div 2)

\* codeDecode(count)
codeDecode(s, codeTable, count) ==
    codeDecodeLoop([s |-> s, vector |-> <<>>, ub |-> FALSE], codeTable, count, count)

\* the end of the header of a dynamic block: lt and dt are the tables made
\* of the code lengths d.vector
dynamicTables(t, d, lt, dt) ==
    IF d.ub THEN Undefined(t, "back() of an empty vector")
    ELSE IF lt.ub \/ dt.ub THEN Undefined(t, "makeTable writes outside the table")
    ELSE [t EXCEPT !.dynamicLengthTable = invertTableBits(lt),
                   !.dynamicDistanceTable = invertTableBits(dt),
                   !.ipc = "symbol"]

\* d: the result of codeDecode(HLIT + HDIST)
dynamicLengths(hlit, hdist, d) ==
    dynamicTables([d.s EXCEPT !.lengths = d.vector, !.HLIT = hlit, !.HDIST = hdist],
                  d,
                  makeTable(SubSeq(d.vector, 1, hlit)),
                  makeTable(SubSeq(d.vector, hlit + 1, hlit + hdist)))

\* ct: the table made of codeLenght
dynamicCodeTable(hlit, hdist, s, ct) ==
    IF ct.ub THEN Undefined(s, "makeTable writes outside the table")
    ELSE dynamicLengths(hlit, hdist, codeDecode(s, invertTableBits(ct), hlit + hdist))

dynamicCodeLenght(hlit, hdist, cl) ==
    dynamicCodeTable(hlit, hdist, cl.s, makeTable(cl.codeLenght))

dynamicHCLEN(hlit, hdist, r) ==
    dynamicCodeLenght(hlit, hdist, readCodeLengths(r.s, 0, r.val + 4, Repeat(19, 0)))

dynamicHDIST(hlit, r) == dynamicHCLEN(hlit, r.val + 1, readBits(r.s, 4, 8))

dynamicHLIT(r) == dynamicHDIST(r.val + 257, readBits(r.s, 5, 8))

\* the header of a dynamic block
stepDynamic(s) == dynamicHLIT(readBits(s, 5, 8))

lengthTable(s) == IF s.BTYPE = 2 THEN s.dynamicLengthTable ELSE staticLengthTable
distanceTable(s) == IF s.BTYPE = 2 THEN s.dynamicDistanceTable ELSE staticDistanceTable

RECURSIVE copyLoop(_, _, _, _, _)
\* for (x = lo; x <= hi; x++) *(dst++) = *(src++), on the resized vector out
copyLoop(out, dst, src, lo, hi) ==
    IF lo > hi THEN out
    ELSE IF lo = hi THEN [out EXCEPT ![dst + lo + 1] = out[src + lo + 1]]
    ELSE LET first == copyLoop(out, dst, src, lo, Mid(lo, hi))
         IN  IF Len(first) # Len(out) THEN first
             ELSE copyLoop(first, dst, src, Mid(lo, hi) + 1, hi)

\* the back-reference of the given length and distance, at the end of the
\* output of t: dst and src are offsets from outputData.data()
copyBack(t, length, distance) ==
    [length |-> length, distance |-> distance,
     dst |-> Len(t.outputData), src |-> Len(t.outputData) - distance]

\* resize, dst, src and the loop that copies
copyRun(t, c) ==
    IF c.src < 0
    THEN Undefined([t EXCEPT !.copy = c], "back-reference before the start of the output")
    ELSE [t EXCEPT !.copy = c,
                   !.outputData = copyLoop(t.outputData \o Repeat(c.length, 0),
                                           c.dst, c.src, 0, c.length - 1)]

copyDistance(length, distanceEntry, r) ==
    copyRun(r.s, copyBack(r.s, length, distanceEntry[2] + r.val))

copyDistanceEntry(length, s, distanceEntry) ==
    copyDistance(length, distanceEntry, readBits(s, distanceEntry[1], 16))

copyDistanceCode(length, h) ==
    IF h.val >= Len(AlphabetDistance)
    THEN Undefined(h.s, "Alphabet::Distance indexed past its end")
    ELSE copyDistanceEntry(length, h.s, AlphabetDistance[h.val + 1])

copyLength(lengthEntry, r) ==
    copyDistanceCode(lengthEntry[2] + r.val, readHuffmanCode(r.s, distanceTable(r.s)))

copyLengthEntry(s, lengthEntry) == copyLength(lengthEntry, readBits(s, lengthEntry[1], 16))

\* a length symbol: the length, the distance and the copy
stepCopy(s, code) ==
    IF code - LengthOffest >= Len(AlphabetLength)
    THEN Undefined(s, "Alphabet::Length indexed past its end")
    ELSE copyLengthEntry(s, AlphabetLength[code - LengthOffest + 1])

\* the branches of the loop over the symbols on the code h.val
symbolCode(h) ==
    IF h.val >= 0 /\ h.val <= 255 THEN [h.s EXCEPT !.outputData = Append(@, h.val)]
    ELSE IF h.val = 256 THEN EndBlock(h.s)
    ELSE stepCopy(h.s, h.val)

\* one turn of the loop over the symbols of a block
stepSymbol(s) == symbolCode(readHuffmanCode(s, lengthTable(s)))

\* one step of inflate() from a state that is not final
inflateStep(s) ==
    CASE s.ipc = "header"  -> stepHeader(s)
      [] s.ipc = "block"   -> stepBlock(s)
      [] s.ipc = "stored"  -> stepStored(s)
      [] s.ipc = "dynamic" -> stepDynamic(s)
      [] s.ipc = "symbol"  -> stepSymbol(s)
      [] OTHER             -> s

Running(s) == s.ipc \in {"header", "block", "stored", "dynamic", "symbol"}

RECURSIVE inflateSteps(_, _)
\* at most n steps of inflate(), stopping once the output is longer than MaxOut
inflateSteps(s, n) ==
    IF ~Running(s) \/ Len(s.outputData) > MaxOut \/ n = 0 THEN s
    ELSE IF n = 1 THEN inflateStep(s)
    ELSE LET first == inflateSteps(s, n \div 2)
         IN  IF ~Running(first) THEN first
             ELSE inflateSteps(first, n - n \div 2)

\* inflate(input): the state it ends in; a state still running after
\* MaxSteps steps or MaxOut bytes is cut off there
inflate(input) == inflateSteps(inflateEntry(input), MaxSteps)

(***************************************************************************)
(* The input stream of readPng(): [file, fpos, good].  good is the         *)
(* stream's 'operator bool': a read that finds fewer bytes than it asks    *)
(* for takes the bytes there are and sets failbit, and every read after    *)
(* that takes nothing.                                                     *)
(***************************************************************************)
\* the value the stream has when readPng(file) is entered
streamOf(bytes) == [file |-> bytes, fpos |-> 0, good |-> TRUE]

\* how many bytes stream.read(_, n) extracts
extracted(st, n) == IF st.good THEN Min(n, Len(st.file) - st.fpos) ELSE 0

\* stream.read(_, n): the bytes extracted and the stream after it
streamRead(st, n) ==
    [bytes |-> SubSeq(st.file, st.fpos + 1, st.fpos + extracted(st, n)),
     st    |-> [st EXCEPT !.fpos = @ + extracted(st, n),
                          !.good = st.good /\ extracted(st, n) = n]]

\* a buffer of n bytes after a read into it: the bytes extracted, then what
\* the buffer held before (rest, one value for every byte of the buffer)
filled(bytes, rest, n) == bytes \o SubSeq(rest, Len(bytes) + 1, n)

\* the bytes b[1], b[2], ... as a big-endian unsigned number
RECURSIVE BigEndian(_)
BigEndian(b) ==
    IF b = <<>> THEN 0 ELSE 256 * BigEndian(SubSeq(b, 1, Len(b) - 1)) + b[Len(b)]

\* the four bytes b as a big-endian two's complement number
Signed(b) == BigEndian(<<IF b[1] >= 128 THEN b[1] - 256 ELSE b[1], b[2], b[3], b[4]>>)

\* readInt<std::int32_t>(stream): 'T value;' is not initialised, so the bytes
\* the read leaves untouched keep indeterminate values, here those of garbage
readInt32(st, garbage) ==
    [val |-> Signed(filled(streamRead(st, 4).bytes, garbage, 4)),
     st  |-> streamRead(st, 4).st]

\* readStaticBytes<N>(stream): the array is zero-initialised
readStaticBytes(st, N) ==
    [val |-> filled(streamRead(st, N).bytes, Repeat(N, 0), N),
     st  |-> streamRead(st, N).st]

\* readDynamicBytes(stream, count), count >= 0: resize() zero-fills
readDynamicBytes(st, count) ==
    [val |-> filled(streamRead(st, count).bytes, Repeat(count, 0), count),
     st  |-> streamRead(st, count).st]

\* the most bytes of chunk data the model follows readChunk with
MaxChunkData == 16

chunkCrc(length, type, d, r) ==
    [chunk |-> [length |-> length, type |-> type, data |-> d.val, crc |-> r.val],
     st |-> r.st, thrown |-> FALSE, beyond |-> FALSE]

chunkData(length, type, d, garbage) ==
    chunkCrc(length, type, d, readInt32(d.st, garbage))

\* bytes.resize(count) of a negative count asks for more than max_size()
\* and throws std::length_error
chunkType(length, t, garbage) ==
    IF length < 0
    THEN [chunk |-> [length |-> length, type |-> t.val, data |-> <<>>, crc |-> 0],
          st |-> t.st, thrown |-> TRUE, beyond |-> FALSE]
    ELSE IF length > MaxChunkData
    THEN [chunk |-> [length |-> length, type |-> t.val, data |-> <<>>, crc |-> 0],
          st |-> t.st, thrown |-> FALSE, beyond |-> TRUE]
    ELSE chunkData(length, t.val, readDynamicBytes(t.st, length), garbage)

chunkLength(r, garbage) == chunkType(r.val, readStaticBytes(r.st, 4), garbage)

\* readChunk(stream): [chunk, st, thrown, beyond]; thrown: it left by an
\* exception; beyond: the chunk is longer than the model follows
readChunk(st, garbage) == chunkLength(readInt32(st, garbage), garbage)

pngSignature == <<137, 80, 78, 71, 13, 10, 26, 10>>

IHDR == <<73, 72, 68, 82>>
IDAT == <<73, 68, 65, 84>>
PLTE == <<80, 76, 84, 69>>
tRNS == <<116, 82, 78, 83>>
IEND == <<73, 69, 78, 68>>

(***************************************************************************)
(* readHeaderChunk(chunk): [ok, message, info]                             *)
(***************************************************************************)
NoInfo == [width |-> 0, height |-> 0, depth |-> 0, colorType |-> 0,
           compression |-> 0, filter |-> 0, interlace |-> 0]

headerError(msg) == [ok |-> FALSE, message |-> msg, info |-> NoInfo]

\* the fields of the chunk data, read through the spanstream; the data has
\* chunk.length = 13 bytes when they are read, and the model follows widths
\* and heights below 2^31
headerFields(d) ==
    [width       |-> BigEndian(SubSeq(d, 1, 4)),
     height      |-> BigEndian(SubSeq(d, 5, 8)),
     depth       |-> d[9],
     colorType   |-> d[10],
     compression |-> d[11],
     filter      |-> d[12],
     interlace   |-> d[13]]

\* the checks of a decoder that takes any interlace method
headerChecksAnyInterlace(info) ==
    IF info.width <= 0 \/ info.height <= 0 THEN headerError("Invalid image size")
    ELSE IF info.depth \notin {1, 2, 4, 8, 16} THEN headerError("Invalid bit depth")
    ELSE IF info.colorType \notin {0, 2, 3, 4, 6} THEN headerError("Invalid color type")
    ELSE IF info.compression # 0 THEN headerError("Invalid compression method")
    ELSE IF info.filter # 0 THEN headerError("Invalid filter method")
    ELSE [ok |-> TRUE, message |-> "", info |-> info]

\* the checks on the fields
headerChecks(info) ==
    IF info.width <= 0 \/ info.height <= 0 THEN headerError("Invalid image size")
    ELSE IF info.depth \notin {1, 2, 4, 8, 16} THEN headerError("Invalid bit depth")
    ELSE IF info.colorType \notin {0, 2, 3, 4, 6} THEN headerError("Invalid color type")
    ELSE IF info.compression # 0 THEN headerError("Invalid compression method")
    ELSE IF info.filter # 0 THEN headerError("Invalid filter method")
    ELSE IF info.interlace \notin {0, 1} THEN headerError("Invalid interlace method")
    ELSE [ok |-> TRUE, message |-> "", info |-> info]

readHeaderChunk(chunk) ==
    IF chunk.type # IHDR THEN headerError("Wrong first chunk type")
    ELSE IF chunk.length # 13 THEN headerError("Wrong first chunk length")
    ELSE headerChecks(headerFields(chunk.data))

(***************************************************************************)
(* The loop of readPng() over the chunks.  Its state is                    *)
(* [paletteR, paletteG, paletteB, paletteA, transR, transG, transB,        *)
(* compressedData, ub]; an empty std::optional is -1; ub names the         *)
(* undefined operation the loop ran into ("" for none).                    *)
(***************************************************************************)
chunkLoopEntry ==
    [paletteR |-> Repeat(256, 0), paletteG |-> Repeat(256, 0),
     paletteB |-> Repeat(256, 0), paletteA |-> Repeat(256, 255),
     transR |-> -1, transG |-> -1, transB |-> -1,
     compressedData |-> <<>>, ub |-> ""]

\* palette after 'for (x = 0; x < n; x++) palette[x] = chunk.data[x * 3 + k]'
paletteEntries(palette, d, n, k) ==
    [i \in 1..256 |-> IF i <= n THEN d[(i - 1) * 3 + k + 1] ELSE palette[i]]

\* std::byteswap(*((std::uint16_t*)chunk.data.data() + k))
swapped16(d, k) == 256 * d[2 * k + 1] + d[2 * k + 2]

plteChunk(st, chunk) ==
    IF chunk.length \div 3 > 256
    THEN [st EXCEPT !.ub = "palette array written past its end"]
    ELSE [st EXCEPT
            !.paletteR = paletteEntries(@, chunk.data, chunk.length \div 3, 0),
            !.paletteG = paletteEntries(@, chunk.data, chunk.length \div 3, 1),
            !.paletteB = paletteEntries(@, chunk.data, chunk.length \div 3, 2)]

trnsChunk(st, chunk, colorType) ==
    IF colorType = 0
    THEN IF Len(chunk.data) < 2
         THEN [st EXCEPT !.ub = "tRNS data read past its end"]
         ELSE [st EXCEPT !.transR = swapped16(chunk.data, 0)]
    ELSE IF colorType = 2
    THEN IF Len(chunk.data) < 6
         THEN [st EXCEPT !.ub = "tRNS data read past its end"]
         ELSE [st EXCEPT !.transR = swapped16(chunk.data, 0),
                         !.transG = swapped16(chunk.data, 1),
                         !.transB = swapped16(chunk.data, 2)]
    ELSE IF colorType = 3
    THEN IF Len(chunk.data) > 256
         THEN [st EXCEPT !.ub = "palette array written past its end"]
         ELSE [st EXCEPT !.paletteA =
                  [i \in 1..256 |-> IF i <= Len(chunk.data) THEN chunk.data[i] ELSE @[i]]]
    ELSE st

\* one turn of the loop
processChunk(st, chunk, colorType) ==
    IF chunk.type = IDAT THEN [st EXCEPT !.compressedData = @ \o chunk.data]
    ELSE IF chunk.type = PLTE THEN plteChunk(st, chunk)
    ELSE IF chunk.type = tRNS THEN trnsChunk(st, chunk, colorType)
    ELSE st

RECURSIVE processChunks(_, _, _, _)
\* the turns of the loop for the chunks cs[i], cs[i + 1], ...
processChunks(st, cs, colorType, i) ==
    IF i > Len(cs) \/ st.ub # "" THEN st
    ELSE processChunks(processChunk(st, cs[i], colorType), cs, colorType, i + 1)

(***************************************************************************)
(* The geometry of the raster.  The widths and heights the model follows   *)
(* keep every product below 2^31, where the arithmetic of uint32_t and of  *)
(* int is exact.                                                           *)
(***************************************************************************)
starting_row  == <<0, 0, 4, 0, 2, 0, 1>>
starting_col  == <<0, 4, 0, 2, 0, 1, 0>>
row_increment == <<8, 8, 8, 4, 4, 2, 2>>
col_increment == <<8, 8, 4, 4, 2, 2, 1>>

\* std::ceil(a / 8.f) and the like, on non-negative ints
CeilDiv(a, b) == (a + b - 1) \div b

channels(info) ==
    IF info.colorType = 2 THEN 3
    ELSE IF info.colorType = 4 THEN 2
    ELSE IF info.colorType = 6 THEN 4
    ELSE 1

bytePerChannel(info) == IF info.depth = 16 THEN 2 ELSE 1

bpp(info) == CeilDiv(channels(info) * info.depth, 8)

lineByteWidth(info) == info.width * bpp(info)

outputSize(info) == info.width * info.height * 4

\* the size of imageData
imageSize(info) == Max(outputSize(info), lineByteWidth(info) * info.height)

scaleTable == <<0, 255, 85, 0, 17, 0, 0, 0, 1>>

\* scale; scaleTable has 9 elements, so scaleTable[16] is a read past its
\* end: the value is indeterminate, here garbage
scale(info, garbage) ==
    IF info.colorType = 3 THEN 1
    ELSE IF info.depth < Len(scaleTable) THEN scaleTable[info.depth + 1]
    ELSE garbage

rawImageWidth(info, width) ==
    IF info.depth < 8 THEN CeilDiv(channels(info) * info.depth * width, 8)
    ELSE channels(info) * width * bytePerChannel(info)

\* passX and passY of the pass (0 .. 6), computed in uint32_t
passX(info, p) ==
    (info.width - starting_col[p + 1] + col_increment[p + 1] - 1)
        \div col_increment[p + 1]

passY(info, p) ==
    (info.height - starting_row[p + 1] + row_increment[p + 1] - 1)
        \div row_increment[p + 1]

\* the arguments of a call of readRawImage
rawImageCall(width, height, startX, startY, strideX, strideY) ==
    [width |-> width, height |-> height, startX |-> startX, startY |-> startY,
     strideX |-> strideX, strideY |-> strideY]

\* readRawImage(tempData, width, height, 0, 0, 1, 1)
wholeImageCall(info) == rawImageCall(info.width, info.height, 0, 0, 1, 1)

\* the call of a decoder that takes the column of a pass for its row
adam7CallSwapped(info, p) ==
    rawImageCall(passX(info, p), passY(info, p),
                 starting_row[p + 1], starting_col[p + 1],
                 col_increment[p + 1], row_increment[p + 1])

\* readRawImage(passData, passX, passY, starting_col[pass], ...)
adam7Call(info, p) ==
    rawImageCall(passX(info, p), passY(info, p),
                 starting_col[p + 1], starting_row[p + 1],
                 col_increment[p + 1], row_increment[p + 1])

(***************************************************************************)
(* unfilter and the first loop of readRawImage.  The state is              *)
(* [data, pos, ub]: the buffer being reconstructed, the index nextByte     *)
(* reads at, and whether nextByte read past the end of decompressedData.   *)
(***************************************************************************)
Abs(v) == IF v < 0 THEN -v ELSE v

\* a, b and c of unfilter
leftByte(buf, x, y, lineWidth, bp) ==
    IF x >= bp THEN buf[x - bp + y * lineWidth + 1] ELSE 0

upByte(buf, x, y, lineWidth) ==
    IF y >= 1 THEN buf[x + (y - 1) * lineWidth + 1] ELSE 0

upLeftByte(buf, x, y, lineWidth, bp) ==
    IF x >= bp /\ y >= 1 THEN buf[x - bp + (y - 1) * lineWidth + 1] ELSE 0

\* v of the branch 'filter == 4', p being (int)a + b - c
paethPick(a, b, c, p) ==
    IF Abs(p - a) <= Abs(p - b) /\ Abs(p - a) <= Abs(p - c) THEN a
    ELSE IF Abs(p - b) <= Abs(p - c) THEN b
    ELSE c

\* byte of a decoder that adds a and b in a uint8_t for the filter type 3
unfilteredWrapped(filter, byte, a, b, c) ==
    IF filter = 1 THEN Trunc(byte + a, 8)
    ELSE IF filter = 2 THEN Trunc(byte + b, 8)
    ELSE IF filter = 3 THEN Trunc(byte + Trunc(a + b, 8) \div 2, 8)
    ELSE IF filter = 4 THEN Trunc(byte + paethPick(a, b, c, a + b - c), 8)
    ELSE byte

\* byte after the branches on filter; byte is a uint8_t
unfiltered(filter, byte, a, b, c) ==
    IF filter = 1 THEN Trunc(byte + a, 8)
    ELSE IF filter = 2 THEN Trunc(byte + b, 8)
    ELSE IF filter = 3 THEN Trunc(byte + (a + b) \div 2, 8)
    ELSE IF filter = 4 THEN Trunc(byte + paethPick(a, b, c, a + b - c), 8)
    ELSE byte

\* unfilter(data, filter, x, y, lineWidth)
unfilter(st, dd, bp, filter, x, y, lineWidth) ==
    IF st.pos >= Len(dd) THEN [st EXCEPT !.ub = TRUE]
    ELSE [st EXCEPT
            !.pos = @ + 1,
            !.data[x + y * lineWidth + 1] =
                unfiltered(filter, dd[st.pos + 1],
                           leftByte(st.data, x, y, lineWidth, bp),
                           upByte(st.data, x, y, lineWidth),
                           upLeftByte(st.data, x, y, lineWidth, bp))]

RECURSIVE unfilterLine(_, _, _, _, _, _, _, _)
\* for (x = lo; x <= hi; x++) unfilter(data, filter, x, y, lineWidth)
unfilterLine(st, dd, bp, filter, y, lineWidth, lo, hi) ==
    IF lo > hi THEN st
    ELSE IF lo = hi THEN unfilter(st, dd, bp, filter, lo, y, lineWidth)
    ELSE LET first == unfilterLine(st, dd, bp, filter, y, lineWidth, lo, Mid(lo, hi))
         IN  IF first.ub THEN first
             ELSE unfilterLine(first, dd, bp, filter, y, lineWidth, Mid(lo, hi) + 1, hi)

\* one turn of the loop over y: the filter byte, then the line
unfilterRow(st, dd, bp, y, byteWidth) ==
    IF st.pos >= Len(dd) THEN [st EXCEPT !.ub = TRUE]
    ELSE unfilterLine([st EXCEPT !.pos = @ + 1], dd, bp, dd[st.pos + 1],
                      y, byteWidth, 0, byteWidth - 1)

RECURSIVE unfilterRows(_, _, _, _, _, _)
\* the turns lo .. hi of the loop over y
unfilterRows(st, dd, bp, byteWidth, lo, hi) ==
    IF lo > hi THEN st
    ELSE IF lo = hi THEN unfilterRow(st, dd, bp, lo, byteWidth)
    ELSE LET first == unfilterRows(st, dd, bp, byteWidth, lo, Mid(lo, hi))
         IN  IF first.ub THEN first
             ELSE unfilterRows(first, dd, bp, byteWidth, Mid(lo, hi) + 1, hi)

(***************************************************************************)
(* The second loop of readRawImage, which moves the samples of the buffer  *)
(* to imageData.  The state is [image, data, passByte, i, writes, ub]:     *)
(* passByte is the pointer's offset from data.data(); writes[k + 1] counts *)
(* the assignments to imageData[k]; ub names the undefined operation the   *)
(* loop ran into ("" for none).                                            *)
(***************************************************************************)
\* how many values start, start + stride, ... are below limit
strideCount(limit, start, stride) ==
    IF start < limit THEN CeilDiv(limit - start, stride) ELSE 0

pPerB(info, call) == Min(call.width, 8 \div info.depth)

\* the body of the loop over x, writing imageData[index]
moveSample(sc, info, sca, call, index) ==
    IF sc.passByte >= Len(sc.data)
    THEN [sc EXCEPT !.ub = "passByte read past the end of the buffer"]
    ELSE IF index >= Len(sc.image)
    THEN [sc EXCEPT !.ub = "imageData written past its end"]
    ELSE IF info.depth >= 8
    THEN [sc EXCEPT !.image[index + 1] = sc.data[sc.passByte + 1],
                    !.writes[index + 1] = @ + 1,
                    !.passByte = @ + 1]
    ELSE [sc EXCEPT !.image[index + 1] =
                        Trunc(sca * Shr(sc.data[sc.passByte + 1], 8 - info.depth), 8),
                    !.writes[index + 1] = @ + 1,
                    !.data[sc.passByte + 1] = Trunc(Shl(@, info.depth), 8),
                    !.i = IF sc.i + 1 = pPerB(info, call) THEN 0 ELSE sc.i + 1,
                    !.passByte = IF sc.i + 1 = pPerB(info, call) THEN @ + 1 ELSE @]

\* the end of a turn of a decoder that goes on in the byte the row ended in
endOfRowKept(sc) == [sc EXCEPT !.ub = sc.ub]

\* the end of a turn of the loop over the rows
endOfRow(sc) ==
    IF sc.ub = "" /\ sc.i # 0 THEN [sc EXCEPT !.passByte = @ + 1, !.i = 0] ELSE sc

\* the k-th sample the loops visit, counted from 0: nCols columns in a row,
\* nx bytes in a column
moveNth(sc, info, sca, call, nCols, nx, k) ==
    moveSample(sc, info, sca, call,
               (call.startX + ((k % (nCols * nx)) \div nx) * call.strideX) * bpp(info)
               + (call.startY + (k \div (nCols * nx)) * call.strideY) * lineByteWidth(info)
               + (k % nx))

moveNthAndRow(sc, info, sca, call, nCols, nx, k) ==
    IF (k + 1) % (nCols * nx) = 0
    THEN endOfRow(moveNth(sc, info, sca, call, nCols, nx, k))
    ELSE moveNth(sc, info, sca, call, nCols, nx, k)

RECURSIVE moveSamples(_, _, _, _, _, _, _, _)
\* the samples lo .. hi of the loops
moveSamples(sc, info, sca, call, nCols, nx, lo, hi) ==
    IF lo > hi THEN sc
    ELSE IF lo = hi THEN moveNthAndRow(sc, info, sca, call, nCols, nx, lo)
    ELSE LET first == moveSamples(sc, info, sca, call, nCols, nx, lo, Mid(lo, hi))
         IN  IF first.ub # "" THEN first
             ELSE moveSamples(first, info, sca, call, nCols, nx, Mid(lo, hi) + 1, hi)

\* the loops over row, col and x
moveRows(sc, info, sca, call, nRows, nCols, nx) ==
    moveSamples(sc, info, sca, call, nCols, nx, 0, nRows * nCols * nx - 1)

\* readRawImage after its two loops: u is the state the first ended in, m
\* the state the second ended in
rawImageMoved(u, m) ==
    [image |-> m.image, pos |-> u.pos, unfiltered |-> u.data,
     writes |-> m.writes, ub |-> m.ub]

\* readRawImage after its first loop
rawImageUnfiltered(u, image, wr, info, sca, call) ==
    IF u.ub
    THEN [image |-> image, pos |-> u.pos, unfiltered |-> u.data, writes |-> wr,
          ub |-> "nextByte read past the end of decompressedData"]
    ELSE rawImageMoved(u,
             moveRows([image |-> image, data |-> u.data, passByte |-> 0, i |-> 0,
                       writes |-> wr, ub |-> ""],
                      info, sca, call,
                      strideCount(info.height, call.startY, call.strideY),
                      strideCount(info.width, call.startX, call.strideX),
                      channels(info) * bytePerChannel(info)))

\* readRawImage(buf, call...): [image, pos, unfiltered, writes, ub];
\* unfiltered is the buffer as the first loop left it
readRawImage(buf, image, wr, at, dd, info, sca, call) ==
    rawImageUnfiltered(
        unfilterRows([data |-> buf, pos |-> at, ub |-> FALSE], dd, bpp(info),
                     rawImageWidth(info, call.width), 0, call.height - 1),
        image, wr, info, sca, call)

(***************************************************************************)
(* readPng() after inflate().  The state r is the record of its locals:    *)
(* [pngInfo, paletteR, paletteG, paletteB, paletteA, transR, transG,       *)
(* transB, decompressedData, scaleV, imageData, pos, pass, passStart,      *)
(* passCall, passData, writes, ppc, pub].  passStart, passCall and         *)
(* passData describe the last call of readRawImage: the value of pos when  *)
(* it was entered, its arguments and its buffer after the first loop.      *)
(* ppc: "raster" (inflate() returned), "lines" (before a call of           *)
(* readRawImage), "depth16", "promote", "trans" (before these parts),      *)
(* "done" (the image is returned), "undefined" (pub names the operation).  *)
(***************************************************************************)
NoCall == rawImageCall(0, 0, 0, 0, 0, 0)

\* imageData, scale and pos
stepAllocate(r, garbage) ==
    [r EXCEPT !.imageData = Repeat(imageSize(r.pngInfo), 0),
              !.writes = Repeat(imageSize(r.pngInfo), 0),
              !.scaleV = scale(r.pngInfo, garbage),
              !.pos = 0, !.pass = 0, !.ppc = "lines"]

\* the state after a call of readRawImage that returned c; next: the ppc
\* that follows when nothing undefined happened
afterRawImage(r, call, c, nextPass, next) ==
    [r EXCEPT !.imageData = c.image, !.writes = c.writes, !.pos = c.pos,
              !.passStart = r.pos, !.passCall = call, !.passData = c.unfiltered,
              !.pass = nextPass,
              !.ppc = IF c.ub # "" THEN "undefined" ELSE next,
              !.pub = c.ub]

\* the branch '!pngInfo->interlace': tempData is a copy of imageData
stepImage(r) ==
    afterRawImage(r, wholeImageCall(r.pngInfo),
                  readRawImage(r.imageData, r.imageData, r.writes, r.pos,
                               r.decompressedData, r.pngInfo, r.scaleV,
                               wholeImageCall(r.pngInfo)),
                  r.pass, "depth16")

\* where the loop over the passes stands after the pass before nextPass
afterPass(nextPass) == IF nextPass >= 7 THEN "depth16" ELSE "lines"

\* one turn of the loop over the passes
stepPass(r) ==
    IF passX(r.pngInfo, r.pass) = 0 \/ passY(r.pngInfo, r.pass) = 0
    THEN [r EXCEPT !.pass = @ + 1, !.ppc = afterPass(r.pass + 1)]
    ELSE afterRawImage(r, adam7Call(r.pngInfo, r.pass),
             readRawImage(Repeat(rawImageWidth(r.pngInfo, passX(r.pngInfo, r.pass))
                                 * passY(r.pngInfo, r.pass), 0),
                          r.imageData, r.writes, r.pos, r.decompressedData,
                          r.pngInfo, r.scaleV, adam7Call(r.pngInfo, r.pass)),
             r.pass + 1, afterPass(r.pass + 1))

RECURSIVE lowBytes(_, _, _)
\* for (x = lo; x <= hi; x++) data[x] = ((uint16_t*)data)[x] & 0xFF, on a
\* little-endian machine
lowBytes(img, lo, hi) ==
    IF lo > hi THEN img
    ELSE IF lo = hi
    THEN [img EXCEPT ![lo + 1] = (img[2 * lo + 1] + 256 * img[2 * lo + 2]) % 256]
    ELSE LET first == lowBytes(img, lo, Mid(lo, hi))
         IN  IF Len(first) # Len(img) THEN first
             ELSE lowBytes(first, Mid(lo, hi) + 1, hi)

\* the part 'if (depth == 16)'
stepDepth16(r) ==
    IF r.pngInfo.depth = 16
    THEN [r EXCEPT !.imageData =
                      lowBytes(@, 0, r.pngInfo.width * r.pngInfo.height
                                     * channels(r.pngInfo) - 1),
                   !.ppc = "promote"]
    ELSE [r EXCEPT !.ppc = "promote"]

\* out[off] = palette[*in] for the pixel k: in is data + k, out is data + 4 k
paletteByte(img, k, off, palette) ==
    [img EXCEPT ![4 * k + off + 1] = palette[img[k + 1] + 1]]

promotePalette(img, r, k) ==
    paletteByte(paletteByte(paletteByte(paletteByte(img, k, 3, r.paletteA),
                                        k, 2, r.paletteB),
                            k, 1, r.paletteG),
                k, 0, r.paletteR)

\* the four assignments of the branches 'channels == 1' and 'channels == 2'
grayPixel(img, k, color, alpha) ==
    [img EXCEPT ![4 * k + 4] = alpha, ![4 * k + 3] = color,
                ![4 * k + 2] = color, ![4 * k + 1] = color]

\* data[to] = data[from]
copyByte(img, to, from) == [img EXCEPT ![to + 1] = img[from + 1]]

\* the branch 'channels == 3' for the pixel k: in is data + 3 k
promoteRGB(img, k) ==
    copyByte(copyByte(copyByte([img EXCEPT ![4 * k + 4] = 255],
                               4 * k + 2, 3 * k + 2),
                      4 * k + 1, 3 * k + 1),
             4 * k, 3 * k)

\* one turn of the loop that widens the pixels, for the pixel k
promotePixel(img, r, k) ==
    IF r.pngInfo.colorType = 3 THEN promotePalette(img, r, k)
    ELSE IF channels(r.pngInfo) = 1 THEN grayPixel(img, k, img[k + 1], 255)
    ELSE IF channels(r.pngInfo) = 2 THEN grayPixel(img, k, img[2 * k + 1], img[2 * k + 2])
    ELSE IF channels(r.pngInfo) = 3 THEN promoteRGB(img, k)
    ELSE img

RECURSIVE promotePixelsForward(_, _, _, _)
\* the turns of a decoder that widens the pixels lo, lo + 1, ..., hi, the
\* first pixel first
promotePixelsForward(img, r, lo, hi) ==
    IF lo > hi THEN img
    ELSE IF lo = hi THEN promotePixel(img, r, lo)
    ELSE LET first == promotePixelsForward(img, r, lo, Mid(lo, hi))
         IN  IF Len(first) # Len(img) THEN first
             ELSE promotePixelsForward(first, r, Mid(lo, hi) + 1, hi)

RECURSIVE promotePixels(_, _, _, _)
\* the turns for the pixels hi, hi - 1, ..., lo, in this order
promotePixels(img, r, lo, hi) ==
    IF lo > hi THEN img
    ELSE IF lo = hi THEN promotePixel(img, r, lo)
    ELSE LET last == promotePixels(img, r, Mid(lo, hi) + 1, hi)
         IN  IF Len(last) # Len(img) THEN last
             ELSE promotePixels(last, r, lo, Mid(lo, hi))

\* the part 'if (colorType == 3) ... else if (channels < 4) ...'
stepPromote(r) ==
    [r EXCEPT !.imageData =
                 promotePixels(@, r, 0, r.pngInfo.width * r.pngInfo.height - 1),
              !.ppc = "trans"]

\* transR, transG or transB after 'if (depth < 8) ... else if (depth == 16) ...'
transScaled(t, info, sca) ==
    IF t < 0 THEN t
    ELSE IF info.depth < 8 THEN Trunc(t * sca, 16)
    ELSE IF info.depth = 16 THEN Shr(t, 8)
    ELSE t

\* whether the loops over the pixels set in[3] = 0 for the pixel whose
\* bytes in[0 .. 3] are img[j + 1 .. j + 4]
keyed(img, j, colorType, tR, tG, tB) ==
    IF colorType = 0 THEN img[j + 1] = tR
    ELSE IF colorType = 2 THEN img[j + 1] = tR /\ img[j + 2] = tG /\ img[j + 3] = tB
    ELSE FALSE

\* imageData after the loops, n being the number of pixels
keyedImage(img, n, colorType, tR, tG, tB) ==
    [j \in 1..Len(img) |->
        IF j % 4 = 0 /\ j <= 4 * n /\ keyed(img, j - 4, colorType, tR, tG, tB)
        THEN 0 ELSE img[j]]

\* the part 'if (transR)' and the return of the image
stepTrans(r) ==
    IF r.transR < 0 THEN [r EXCEPT !.ppc = "done"]
    ELSE [r EXCEPT
            !.transR = transScaled(@, r.pngInfo, r.scaleV),
            !.transG = transScaled(@, r.pngInfo, r.scaleV),
            !.transB = transScaled(@, r.pngInfo, r.scaleV),
            !.imageData = keyedImage(@, r.pngInfo.width * r.pngInfo.height,
                                     r.pngInfo.colorType,
                                     transScaled(r.transR, r.pngInfo, r.scaleV),
                                     transScaled(r.transG, r.pngInfo, r.scaleV),
                                     transScaled(r.transB, r.pngInfo, r.scaleV)),
            !.ppc = "done"]

\* one step of this part of readPng() from a state that is not final
rasterStep(r, garbage) ==
    CASE r.ppc = "raster"  -> stepAllocate(r, garbage)
      [] r.ppc = "lines"   -> IF r.pngInfo.interlace = 0 THEN stepImage(r) ELSE stepPass(r)
      [] r.ppc = "depth16" -> stepDepth16(r)
      [] r.ppc = "promote" -> stepPromote(r)
      [] r.ppc = "trans"   -> stepTrans(r)
      [] OTHER             -> r

RECURSIVE rasterSteps(_, _, _)
\* n steps
rasterSteps(r, garbage, n) ==
    IF n = 0 THEN r ELSE rasterSteps(rasterStep(r, garbage), garbage, n - 1)

\* the pixels of the sf::Image made of data: width * height * 4 bytes
returnedPixels(r) == SubSeq(r.imageData, 1, 4 * r.pngInfo.width * r.pngInfo.height)

(***************************************************************************)
(* The state of the model as records of the locals, and back               *)
(***************************************************************************)
InfState ==
    [data |-> data, byteOffset |-> byteOffset, bitOffset |-> bitOffset,
     outputData |-> outputData, ipc |-> ipc, err |-> err, ub |-> ub,
     BFINAL |-> BFINAL, BTYPE |-> BTYPE, LEN |-> LEN, NLEN |-> NLEN,
     lengths |-> lengths, HLIT |-> HLIT, HDIST |-> HDIST,
     dynamicLengthTable |-> dynamicLengthTable,
     dynamicDistanceTable |-> dynamicDistanceTable, copy |-> copy]

InfIs(s) ==
    /\ data = s.data
    /\ byteOffset = s.byteOffset
    /\ bitOffset = s.bitOffset
    /\ outputData = s.outputData
    /\ ipc = s.ipc
    /\ err = s.err
    /\ ub = s.ub
    /\ BFINAL = s.BFINAL
    /\ BTYPE = s.BTYPE
    /\ LEN = s.LEN
    /\ NLEN = s.NLEN
    /\ lengths = s.lengths
    /\ HLIT = s.HLIT
    /\ HDIST = s.HDIST
    /\ dynamicLengthTable = s.dynamicLengthTable
    /\ dynamicDistanceTable = s.dynamicDistanceTable
    /\ copy = s.copy
    /\ message = <<>>

InfBecomes(s) ==
    /\ data' = s.data
    /\ byteOffset' = s.byteOffset
    /\ bitOffset' = s.bitOffset
    /\ outputData' = s.outputData
    /\ ipc' = s.ipc
    /\ err' = s.err
    /\ ub' = s.ub
    /\ BFINAL' = s.BFINAL
    /\ BTYPE' = s.BTYPE
    /\ LEN' = s.LEN
    /\ NLEN' = s.NLEN
    /\ lengths' = s.lengths
    /\ HLIT' = s.HLIT
    /\ HDIST' = s.HDIST
    /\ dynamicLengthTable' = s.dynamicLengthTable
    /\ dynamicDistanceTable' = s.dynamicDistanceTable
    /\ copy' = s.copy
    /\ message' = message

RasterState ==
    [pngInfo |-> pngInfo, paletteR |-> paletteR, paletteG |-> paletteG,
     paletteB |-> paletteB, paletteA |-> paletteA, transR |-> transR,
     transG |-> transG, transB |-> transB, decompressedData |-> decompressedData,
     scaleV |-> scaleV, imageData |-> imageData, pos |-> pos, pass |-> pass,
     passStart |-> passStart, passCall |-> passCall, passData |-> passData,
     writes |-> writes, ppc |-> ppc, pub |-> pub]

RasterIs(r) ==
    /\ pngInfo = r.pngInfo
    /\ paletteR = r.paletteR
    /\ paletteG = r.paletteG
    /\ paletteB = r.paletteB
    /\ paletteA = r.paletteA
    /\ transR = r.transR
    /\ transG = r.transG
    /\ transB = r.transB
    /\ decompressedData = r.decompressedData
    /\ scaleV = r.scaleV
    /\ imageData = r.imageData
    /\ pos = r.pos
    /\ pass = r.pass
    /\ passStart = r.passStart
    /\ passCall = r.passCall
    /\ passData = r.passData
    /\ writes = r.writes
    /\ ppc = r.ppc
    /\ pub = r.pub

RasterBecomes(r) ==
    /\ pngInfo' = r.pngInfo
    /\ paletteR' = r.paletteR
    /\ paletteG' = r.paletteG
    /\ paletteB' = r.paletteB
    /\ paletteA' = r.paletteA
    /\ transR' = r.transR
    /\ transG' = r.transG
    /\ transB' = r.transB
    /\ decompressedData' = r.decompressedData
    /\ scaleV' = r.scaleV
    /\ imageData' = r.imageData
    /\ pos' = r.pos
    /\ pass' = r.pass
    /\ passStart' = r.passStart
    /\ passCall' = r.passCall
    /\ passData' = r.passData
    /\ writes' = r.writes
    /\ ppc' = r.ppc
    /\ pub' = r.pub

\* the locals of readPng() before any of them has a value; at: its ppc
rasterBlank(at) ==
    [pngInfo |-> NoInfo, paletteR |-> <<>>, paletteG |-> <<>>, paletteB |-> <<>>,
     paletteA |-> <<>>, transR |-> -1, transG |-> -1, transB |-> -1,
     decompressedData |-> <<>>, scaleV |-> 0, imageData |-> <<>>, pos |-> 0,
     pass |-> 0, passStart |-> 0, passCall |-> NoCall, passData |-> <<>>,
     writes |-> <<>>, ppc |-> at, pub |-> ""]

\* the state of readPng() when inflate() has returned dd
rasterEntry(info, pR, pG, pB, pA, tR, tG, tB, dd) ==
    [rasterBlank("raster") EXCEPT
        !.pngInfo = info, !.paletteR = pR, !.paletteG = pG, !.paletteB = pB,
        !.paletteA = pA, !.transR = tR, !.transG = tG, !.transB = tB,
        !.decompressedData = dd]

\* no stream is being read
StreamIdle ==
    /\ file = <<>>
    /\ fpos = 0
    /\ good = TRUE
    /\ chunks = <<>>
    /\ perr = ""
    /\ compressedData = <<>>

(***************************************************************************)
(* The specification of inflate(): its steps, one action each, from the    *)
(* inputs below.                                                           *)
(***************************************************************************)
\* a 16-bit value as two bytes, low byte first
Le16(v) == <<v % 256, v \div 256>>

\* a function on 1..n as a sequence
AsSeq(f, n) == [i \in 1..n |-> f[i]]

\* a valid zlib header: CM = 8, CINFO = 7, FLEVEL = 0, FCHECK = 1
GoodHeader == <<120, 1>>

\* a final block of dynamic codes that ends with its code lengths: HLIT = 0,
\* HDIST = 0, the literal 0 and the symbol 256 with codes of 1 bit ("0" and
\* "1"), no distance code
EndlessZeros == <<5, 192, 129, 8, 0, 0, 0, 0, 160, 253, 169, 15>>

\* blocks of the fixed code with literals and a back-reference into the
\* output: "aaaaaaaaaaaa" and "abcabcabcabx" as zlib compresses them, and
\* "a" in a final block whose BTYPE is 3
KnownBlocks ==
    {<<75, 76, 68, 0, 0>>, <<75, 76, 74, 78, 132, 162, 10, 0>>, <<79, 4, 0>>,
     EndlessZeros}

\* every pair of header bytes before a block, and the inputs too short to
\* hold a header
InitHeaderInputs ==
    \/ InfIs(inflateEntry(<<>>))
    \/ \E cmf \in 0..255 : InfIs(inflateEntry(<<cmf>>))
    \/ \E cmf \in 0..255, flg \in 0..255 : InfIs(inflateEntry(<<cmf, flg, 3, 0>>))

\* stored blocks: a block header byte, LEN, NLEN and some bytes
InitStoredInputs ==
    \E h \in {0, 1, 248, 249}, len \in 0..MaxStoredLen,
       nlen \in {65535 - k : k \in 0..MaxStoredLen} \cup {0, 1},
       n \in 0..MaxStoredLen :
       \E rest \in [1..n -> StoredBytes] :
          InfIs(inflateEntry(GoodHeader \o <<h>> \o Le16(len) \o Le16(nlen)
                             \o AsSeq(rest, n)))

\* compressed blocks: every sequence of bytes of HuffBytes, and KnownBlocks
InitHuffInputs ==
    \/ \E n \in 1..MaxHuffLen :
          \E body \in [1..n -> HuffBytes] :
             InfIs(inflateEntry(GoodHeader \o AsSeq(body, n)))
    \/ \E body \in KnownBlocks : InfIs(inflateEntry(GoodHeader \o body))

InitInflate ==
    /\ InitHeaderInputs \/ InitStoredInputs \/ InitHuffInputs
    /\ StreamIdle
    /\ RasterIs(rasterBlank("idle"))

ZlibHeader ==
    /\ ipc = "header"
    /\ InfBecomes(stepHeader(InfState))
    /\ UNCHANGED <<streamVars, rasterVars>>

BlockHeader ==
    /\ ipc = "block"
    /\ InfBecomes(stepBlock(InfState))
    /\ UNCHANGED <<streamVars, rasterVars>>

StoredBlock ==
    /\ ipc = "stored"
    /\ InfBecomes(stepStored(InfState))
    /\ UNCHANGED <<streamVars, rasterVars>>

DynamicHeader ==
    /\ ipc = "dynamic"
    /\ InfBecomes(stepDynamic(InfState))
    /\ UNCHANGED <<streamVars, rasterVars>>

DecodeSymbol ==
    /\ ipc = "symbol"
    /\ Len(outputData) <= MaxOut
    /\ InfBecomes(stepSymbol(InfState))
    /\ UNCHANGED <<streamVars, rasterVars>>

\* what follows an undefined operation is not defined: the call may crash
\* or return
UndefinedOutcome ==
    /\ ipc = "undefined"
    /\ \E o \in {"crashed", "done", "failed"} : ipc' = o
    /\ UNCHANGED <<data, byteOffset, bitOffset, outputData, err, ub, BFINAL, BTYPE,
                   LEN, NLEN, lengths, HLIT, HDIST, dynamicLengthTable,
                   dynamicDistanceTable, copy, message>>
    /\ UNCHANGED <<streamVars, rasterVars>>

NextInflate ==
    \/ ZlibHeader
    \/ BlockHeader
    \/ StoredBlock
    \/ DynamicHeader
    \/ DecodeSymbol
    \/ UndefinedOutcome

SpecInflate == InitInflate /\ [][NextInflate]_vars

(***************************************************************************)
(* The specification of readPng(): one action for each part of it.  ppc is *)
(* where it stands: "signature", "chunks" (in the loop that reads them),   *)
(* "header", "process" (the loop over the chunks), "inflate", then the     *)
(* values of the raster part; "failed" (std::nullopt returned), "crashed"  *)
(* (left by an exception nothing catches), "unfollowed" (the run is        *)
(* longer than the model follows).                                         *)
(***************************************************************************)
\* the values the read of a failed stream can leave in a byte of
\* 'T value;', and scaleTable[16] can hold
GarbageBytes == {0, 255}

Stream == [file |-> file, fpos |-> fpos, good |-> good]

\* inflate() is not running
InflateIdle == InfIs([inflateEntry(<<>>) EXCEPT !.ipc = "idle"])

palettes == <<paletteR, paletteG, paletteB, paletteA, transR, transG, transB>>

rasterWork ==
    <<decompressedData, scaleV, imageData, pos, pass, passStart, passCall,
      passData, writes>>

\* the state of readPng(input) when it is entered
pngEntry(input) ==
    /\ file = input
    /\ fpos = 0
    /\ good = TRUE
    /\ chunks = <<>>
    /\ perr = ""
    /\ compressedData = <<>>
    /\ InflateIdle
    /\ RasterIs(rasterBlank("signature"))

SignatureRead(sig) ==
    /\ fpos' = sig.st.fpos
    /\ good' = sig.st.good
    /\ ppc' = IF sig.val # pngSignature THEN "failed" ELSE "chunks"
    /\ perr' = IF sig.val # pngSignature THEN "Incorrect file header" ELSE perr
    /\ UNCHANGED <<file, chunks, compressedData, infVars, pngInfo, palettes,
                   rasterWork, pub>>

ReadSignature ==
    /\ ppc = "signature"
    /\ SignatureRead(readStaticBytes(Stream, 8))

\* one turn of 'while (stream)', c being what readChunk(stream) returned
ChunkRead(c) ==
    /\ fpos' = c.st.fpos
    /\ good' = c.st.good
    /\ chunks' = IF c.thrown \/ c.beyond THEN chunks ELSE Append(chunks, c.chunk)
    /\ ppc' = IF c.thrown THEN "crashed"
              ELSE IF c.beyond THEN "unfollowed"
              ELSE IF c.chunk.type = IEND \/ ~c.st.good THEN "header"
              ELSE "chunks"
    /\ UNCHANGED <<file, perr, compressedData, infVars, pngInfo, palettes,
                   rasterWork, pub>>

ReadChunk ==
    /\ ppc = "chunks"
    /\ \E g \in [1..4 -> GarbageBytes] : ChunkRead(readChunk(Stream, AsSeq(g, 4)))

\* 'if (chunks.size() <= 0)', readHeaderChunk(firstChunk) and 'if (!pngInfo)'
HeaderRead(h) ==
    /\ pngInfo' = h.info
    /\ perr' = h.message
    /\ ppc' = IF h.ok THEN "process" ELSE "failed"
    /\ UNCHANGED <<file, fpos, good, chunks, compressedData, infVars, palettes, rasterWork, pub>>

ReadHeader ==
    /\ ppc = "header"
    /\ HeaderRead(IF Len(chunks) <= 0 THEN headerError("Empty file")
                  ELSE readHeaderChunk(chunks[1]))

\* the loop over the chunks, st being the state it ends in
ChunksProcessed(st) ==
    /\ paletteR' = st.paletteR
    /\ paletteG' = st.paletteG
    /\ paletteB' = st.paletteB
    /\ paletteA' = st.paletteA
    /\ transR' = st.transR
    /\ transG' = st.transG
    /\ transB' = st.transB
    /\ compressedData' = st.compressedData
    /\ pub' = st.ub
    /\ ppc' = IF st.ub # "" THEN "undefined" ELSE "inflate"
    /\ UNCHANGED <<file, fpos, good, chunks, perr, infVars, pngInfo, rasterWork>>

ProcessChunks ==
    /\ ppc = "process"
    /\ ChunksProcessed(processChunks(chunkLoopEntry, chunks, pngInfo.colorType, 1))

\* inflate(compressedData) and 'if (!decompressedDataOpt)', s being the state
\* inflate() ended in
Inflated(s) ==
    /\ InfBecomes(s)
    /\ decompressedData' = IF s.ipc = "done" THEN s.outputData ELSE decompressedData
    /\ perr' = s.err
    /\ pub' = s.ub
    /\ ppc' = IF s.ipc = "done" THEN "raster"
              ELSE IF s.ipc = "failed" THEN "failed"
              ELSE IF s.ipc = "undefined" THEN "undefined"
              ELSE "unfollowed"
    /\ UNCHANGED <<file, fpos, good, chunks, compressedData, pngInfo, palettes, scaleV,
                   imageData, pos, pass, passStart, passCall, passData, writes>>

Inflate ==
    /\ ppc = "inflate"
    /\ Inflated(inflate(compressedData))

Allocate ==
    /\ ppc = "raster"
    /\ \E g \in GarbageBytes : RasterBecomes(stepAllocate(RasterState, g))
    /\ UNCHANGED <<infVars, streamVars>>

ReadImage ==
    /\ ppc = "lines"
    /\ pngInfo.interlace = 0
    /\ RasterBecomes(stepImage(RasterState))
    /\ UNCHANGED <<infVars, streamVars>>

ReadPass ==
    /\ ppc = "lines"
    /\ pngInfo.interlace # 0
    /\ RasterBecomes(stepPass(RasterState))
    /\ UNCHANGED <<infVars, streamVars>>

Depth16 ==
    /\ ppc = "depth16"
    /\ RasterBecomes(stepDepth16(RasterState))
    /\ UNCHANGED <<infVars, streamVars>>

Promote ==
    /\ ppc = "promote"
    /\ RasterBecomes(stepPromote(RasterState))
    /\ UNCHANGED <<infVars, streamVars>>

Transparency ==
    /\ ppc = "trans"
    /\ RasterBecomes(stepTrans(RasterState))
    /\ UNCHANGED <<infVars, streamVars>>

\* what follows an undefined operation of readPng() is not defined: the
\* call may crash or return, with or without an image
PngUndefinedOutcome ==
    /\ ppc = "undefined"
    /\ \E o \in {"crashed", "done", "failed"} : ppc' = o
    /\ UNCHANGED <<infVars, streamVars, pngInfo, palettes, rasterWork, pub>>

(***************************************************************************)
(* Input files                                                             *)
(***************************************************************************)
\* a 32-bit value as four bytes, high byte first
Be32(v) ==
    <<(v \div 16777216) % 256, (v \div 65536) % 256, (v \div 256) % 256, v % 256>>

\* a chunk record: length, type, data and four bytes in the place of the
\* CRC, which readPng() stores and never looks at
chunkBytes(type, d) == Be32(Len(d)) \o type \o d \o <<1, 2, 3, 4>>

\* the data of an IHDR chunk
ihdrData(w, h, depth, colorType, compression, filter, interlace) ==
    Be32(w) \o Be32(h) \o <<depth, colorType, compression, filter, interlace>>

\* files of a first chunk and an IEND chunk: an IHDR chunk of 12, 13 or 14
\* bytes of data or a chunk of 13 bytes of another type, its fields in and
\* out of their ranges
HeaderFirstChunks == {<<IHDR, 12>>, <<IHDR, 13>>, <<IHDR, 14>>, <<IDAT, 13>>, <<IEND, 13>>}
HeaderSizes == {<<0, 1>>, <<1, 0>>, <<1, 1>>, <<2147483647, 2>>}
HeaderDepths == {0, 1, 2, 3, 4, 8, 16, 32}
HeaderColorTypes == 0..7

InitHeader ==
    \E first \in HeaderFirstChunks, size \in HeaderSizes, depth \in HeaderDepths,
       colorType \in HeaderColorTypes, compression \in {0, 1}, filter \in {0, 1},
       interlace \in {0, 1, 2} :
       pngEntry(pngSignature
                \o chunkBytes(first[1],
                              SubSeq(ihdrData(size[1], size[2], depth, colorType,
                                              compression, filter, interlace) \o <<0>>,
                                     1, first[2]))
                \o chunkBytes(IEND, <<>>))

NextHeader ==
    \/ ReadSignature
    \/ ReadChunk
    \/ ReadHeader

SpecHeader == InitHeader /\ [][NextHeader]_vars

\* zlib streams as the data of an IDAT chunk: the scanline <<0, 0>> and the
\* scanline <<0, 7>> in a block of the fixed code, the scanline <<0, 0>> in
\* a stored block, a scanline cut short, and a block whose first symbol is a
\* back-reference
IdatStreams ==
    {<<120, 1, 99, 96, 0, 0, 0, 2, 0, 1>>,
     <<120, 1, 99, 96, 7, 0, 0, 9, 0, 8>>,
     <<120, 1, 1, 2, 0, 253, 255, 0, 0, 0, 2, 0, 1>>,
     <<120, 1, 99, 0, 0, 0, 1, 0, 1>>,
     <<120, 1, 3, 2, 0>>}

\* files of one pixel of 8 bits, grey or of a palette, with and without a
\* PLTE and a tRNS chunk
wholeFile(colorType, plte, trns, idat) ==
    pngSignature \o chunkBytes(IHDR, ihdrData(1, 1, 8, colorType, 0, 0, 0))
                 \o plte \o trns \o chunkBytes(IDAT, idat) \o chunkBytes(IEND, <<>>)

\* every such file, whole and cut after each of its bytes
cutFiles(whole) == \E n \in 0..Len(whole) : pngEntry(SubSeq(whole, 1, n))

InitPng ==
    \E colorType \in {0, 3},
       plte \in {<<>>, chunkBytes(PLTE, <<10, 20, 30, 40, 50, 60>>)},
       trns \in {<<>>, chunkBytes(tRNS, <<0, 7>>)},
       idat \in IdatStreams :
       cutFiles(wholeFile(colorType, plte, trns, idat))

NextPng ==
    \/ ReadSignature
    \/ ReadChunk
    \/ ReadHeader
    \/ ProcessChunks
    \/ Inflate
    \/ Allocate
    \/ ReadImage
    \/ Depth16
    \/ Promote
    \/ Transparency
    \/ PngUndefinedOutcome

SpecPng == InitPng /\ [][NextPng]_vars

(***************************************************************************)
(* Rasters: the inputs of the part of readPng() after inflate().  Their    *)
(* scanlines are laid out as the PNG format lays them out, written here    *)
(* from the format and not from the decoder: a grid is one reduced image,  *)
(* [sx, sy, kx, ky, w, h], the pixels (sx + col kx, sy + row ky) for       *)
(* col < w and row < h.                                                    *)
(***************************************************************************)
\* the largest width and height of a raster
MaxDim == 9

\* the Adam7 passes as the format defines them, passes 1 .. 7
Adam7StartX == <<0, 4, 0, 2, 0, 1, 0>>
Adam7StartY == <<0, 0, 4, 0, 2, 0, 1>>
Adam7StrideX == <<8, 8, 4, 4, 2, 2, 1>>
Adam7StrideY == <<8, 8, 8, 4, 4, 2, 2>>

\* ceil(a / b) for b > 0 and any a
CeilOf(a, b) == -((-a) \div b)

Adam7PassW(w, p) == CeilOf(w - Adam7StartX[p], Adam7StrideX[p])
Adam7PassH(h, p) == CeilOf(h - Adam7StartY[p], Adam7StrideY[p])

\* the grids of an image, in the order of their scanlines in the stream
gridsOf(info) ==
    IF info.interlace = 0
    THEN <<[sx |-> 0, sy |-> 0, kx |-> 1, ky |-> 1,
            w |-> info.width, h |-> info.height]>>
    ELSE [p \in 1..7 |->
            [sx |-> Adam7StartX[p], sy |-> Adam7StartY[p],
             kx |-> Adam7StrideX[p], ky |-> Adam7StrideY[p],
             w |-> Adam7PassW(info.width, p), h |-> Adam7PassH(info.height, p)]]

\* the samples of a pixel, by colour type
samplesPerPixel(info) ==
    CASE info.colorType = 2 -> 3
      [] info.colorType = 4 -> 2
      [] info.colorType = 6 -> 4
      [] OTHER -> 1

\* the bytes of a scanline of the grid g, without its filter byte
rowBytesOf(info, g) == CeilOf(samplesPerPixel(info) * info.depth * g.w, 8)

\* the bytes of all the scanlines of the grid g; an empty grid has none
gridBytes(info, g) == IF g.w <= 0 \/ g.h <= 0 THEN 0 ELSE (rowBytesOf(info, g) + 1) * g.h

RECURSIVE gridStart(_, _, _)
\* the offset in the stream of the first scanline of the grid gs[p]
gridStart(info, gs, p) ==
    IF p <= 1 THEN 0 ELSE gridStart(info, gs, p - 1) + gridBytes(info, gs[p - 1])

\* the sample c of the pixel (x, y) of the test image seed
sampleOf(seed, x, y, c, depth) == (seed + 263 * x + 1031 * y + 4099 * c) % (2 ^ depth)

\* the i-th sample of the scanline row of the grid g
rowSample(seed, info, g, row, i) ==
    sampleOf(seed, g.sx + (i \div samplesPerPixel(info)) * g.kx, g.sy + row * g.ky,
             i % samplesPerPixel(info), info.depth)

RECURSIVE packedBits(_, _, _, _, _, _)
\* the samples t, t + 1, ... of the byte k of a scanline of a depth below 8,
\* the first sample in the high bits
packedBits(seed, info, g, row, k, t) ==
    IF t >= 8 \div info.depth THEN 0
    ELSE (IF k * (8 \div info.depth) + t < g.w * samplesPerPixel(info)
          THEN rowSample(seed, info, g, row, k * (8 \div info.depth) + t)
                   * 2 ^ (8 - info.depth * (t + 1))
          ELSE 0)
         + packedBits(seed, info, g, row, k, t + 1)

\* the byte k of the scanline row of the grid g
packedByte(seed, info, g, row, k) ==
    IF info.depth = 8 THEN rowSample(seed, info, g, row, k)
    ELSE IF info.depth = 16
    THEN IF k % 2 = 0 THEN rowSample(seed, info, g, row, k \div 2) \div 256
         ELSE rowSample(seed, info, g, row, k \div 2) % 256
    ELSE packedBits(seed, info, g, row, k, 0)

\* the filter byte of the scanline row: f = 0 gives every scanline the
\* filter type 0, another f the types 1 .. 5 in turn, starting at f
filterOfRow(f, row) == IF f = 0 THEN 0 ELSE 1 + ((f - 1 + row) % 5)

RECURSIVE gridRows(_, _, _, _, _)
\* the scanlines row, row + 1, ... of the grid g
gridRows(seed, info, g, f, row) ==
    IF g.w <= 0 \/ row >= g.h THEN <<>>
    ELSE <<filterOfRow(f, row)>>
         \o [k \in 1..rowBytesOf(info, g) |-> packedByte(seed, info, g, row, k - 1)]
         \o gridRows(seed, info, g, f, row + 1)

RECURSIVE streamFrom(_, _, _, _, _)
\* the scanlines of the grids gs[p], gs[p + 1], ...
streamFrom(seed, info, gs, f, p) ==
    IF p > Len(gs) THEN <<>>
    ELSE gridRows(seed, info, gs[p], f, 0) \o streamFrom(seed, info, gs, f, p + 1)

\* the inflated stream of the test image seed with the header info
scanlines(seed, info, f) == streamFrom(seed, info, gridsOf(info), f, 1)

\* the header of a raster
rasterInfo(w, h, depth, colorType, interlace) ==
    [width |-> w, height |-> h, depth |-> depth, colorType |-> colorType,
     compression |-> 0, filter |-> 0, interlace |-> interlace]

\* a palette whose entries differ
paletteOf(m) == [i \in 1..256 |-> (m * i) % 256]

\* readPng() when inflate() has returned dd, with a palette and the
\* transparent colour <<tR, tG, tB>>
rasterOf(info, t, dd) ==
    /\ RasterIs(rasterEntry(info, paletteOf(3), paletteOf(5), paletteOf(7),
                            paletteOf(11), t[1], t[2], t[3], dd))
    /\ InflateIdle
    /\ StreamIdle

\* <<depth, colorType>> of the rasters
RasterKinds ==
    {<<8, 0>>, <<1, 0>>, <<2, 0>>, <<4, 0>>, <<16, 0>>, <<8, 2>>, <<16, 2>>,
     <<8, 3>>, <<4, 3>>, <<8, 4>>, <<8, 6>>}

RasterSeeds == {0, 77}

NoTrans == <<-1, -1, -1>>

\* the kinds whose images have every size, and the sizes of the others
EverySizeKinds == {<<8, 0>>, <<1, 0>>}
SomeSizes == {1, 2, 3, 5, MaxDim}

\* the test image seed of a size and kind, every scanline of filter type 0
plainRaster(w, h, kind, il, seed) ==
    rasterOf(rasterInfo(w, h, kind[1], kind[2], il), NoTrans,
             scanlines(seed, rasterInfo(w, h, kind[1], kind[2], il), 0))

\* images interlaced or not, every scanline of filter type 0
InitPlainRasters ==
    \/ \E w \in 1..MaxDim, h \in 1..MaxDim, kind \in EverySizeKinds, il \in {0, 1},
          seed \in RasterSeeds : plainRaster(w, h, kind, il, seed)
    \/ \E w \in SomeSizes, h \in SomeSizes, kind \in RasterKinds \ EverySizeKinds,
          il \in {0, 1}, seed \in RasterSeeds : plainRaster(w, h, kind, il, seed)

FilterBytes == {1, 128, 255}

\* 2 x 2 grey images of 8 bits: every pair of filter bytes, with the bytes
\* of FilterBytes; and images of the other kinds with their scanlines of the
\* filter types in turn
InitFilteredRasters ==
    \/ \E f1 \in 0..5, f2 \in 0..5 :
          \E b \in [1..4 -> FilterBytes] :
             rasterOf(rasterInfo(2, 2, 8, 0, 0), NoTrans,
                      <<f1, b[1], b[2], f2, b[3], b[4]>>)
    \/ \E w \in {1, 2, 5}, h \in {1, 2, 3, 5}, kind \in RasterKinds, il \in {0, 1},
          f \in 1..5 :
          rasterOf(rasterInfo(w, h, kind[1], kind[2], il), NoTrans,
                   scanlines(77, rasterInfo(w, h, kind[1], kind[2], il), f))

\* the values of a 16-bit sample and of a 16-bit tRNS entry
KeySamples == {256, 257}

\* a 16-bit sample as its two bytes
Be16(v) == <<v \div 256, v % 256>>

\* images with a tRNS chunk: one pixel of 16-bit RGB and every transparent
\* colour of KeySamples, and grey images
InitKeyedRasters ==
    \/ \E r \in KeySamples, g \in KeySamples, b \in KeySamples,
          tR \in KeySamples, tG \in KeySamples, tB \in KeySamples :
          rasterOf(rasterInfo(1, 1, 16, 2, 0), <<tR, tG, tB>>,
                   <<0>> \o Be16(r) \o Be16(g) \o Be16(b))
    \/ \E depth \in {1, 2, 8, 16}, tR \in {0, 1, 3, 256}, il \in {0, 1},
          seed \in RasterSeeds :
          rasterOf(rasterInfo(3, 2, depth, 0, il), <<tR, -1, -1>>,
                   scanlines(seed, rasterInfo(3, 2, depth, 0, il), 0))

\* inflated streams shorter than the image needs
InitShortRasters ==
    \E w \in 1..2, kind \in RasterKinds, il \in {0, 1}, cut \in 1..2 :
       rasterOf(rasterInfo(w, 2, kind[1], kind[2], il), NoTrans,
                SubSeq(scanlines(0, rasterInfo(w, 2, kind[1], kind[2], il), 0), 1,
                       Len(scanlines(0, rasterInfo(w, 2, kind[1], kind[2], il), 0)) - cut))

InitRaster ==
    \/ InitPlainRasters
    \/ InitFilteredRasters
    \/ InitKeyedRasters
    \/ InitShortRasters

NextRaster ==
    \/ Allocate
    \/ ReadImage
    \/ ReadPass
    \/ Depth16
    \/ Promote
    \/ Transparency
    \/ PngUndefinedOutcome

SpecRaster == InitRaster /\ [][NextRaster]_vars

(***************************************************************************)
(* Huffman codes: makeTable, invertTableBits and readHuffmanCode on the    *)
(* codes of complete sets of code lengths.  The encoder is written here    *)
(* from the definition of the canonical code (RFC 1951, 3.2.2) and not     *)
(* from the decoder: lens[s + 1] is the length of the code of the symbol   *)
(* s, 0 when s has no code.                                                *)
(***************************************************************************)
\* the most symbols and the longest code of the sets of lengths tried, and
\* the most symbols of a message
MaxSymbols == 5
MaxCodeLen == 4
MaxMessage == 4

CodedSymbols(lens) == {s \in 0..(Len(lens) - 1) : lens[s + 1] > 0}

RECURSIVE KraftSum(_, _, _)
\* the sum of 2^(m - length) over the codes of the symbols t - 1, t, ...
KraftSum(lens, m, t) ==
    IF t > Len(lens) THEN 0
    ELSE (IF lens[t] > 0 THEN 2 ^ (m - lens[t]) ELSE 0) + KraftSum(lens, m, t + 1)

\* the lengths are those of a complete prefix code
CompleteCode(lens) ==
    /\ CodedSymbols(lens) # {}
    /\ KraftSum(lens, SeqMax(lens), 1) = 2 ^ SeqMax(lens)

RECURSIVE codesBefore(_, _, _, _)
\* how many codes of the length len precede that of the symbol s in the
\* canonical order, counted over the symbols t - 1, t, ...: a shorter code
\* stands for all its extensions, a code of the same length for itself when
\* its symbol is smaller
codesBefore(lens, s, len, t) ==
    IF t > Len(lens) THEN 0
    ELSE (IF lens[t] > 0 /\ lens[t] < len THEN 2 ^ (len - lens[t])
          ELSE IF lens[t] = len /\ t - 1 < s THEN 1
          ELSE 0)
         + codesBefore(lens, s, len, t + 1)

\* the canonical code of the symbol s, as a number of lens[s + 1] bits
canonicalCode(lens, s) == codesBefore(lens, s, lens[s + 1], 1)

\* the bits of the code of s in the order they are sent: the high bit first
sentBits(lens, s) ==
    [i \in 1..lens[s + 1] |-> (canonicalCode(lens, s) \div 2 ^ (lens[s + 1] - i)) % 2]

RECURSIVE bitsValue(_, _)
\* the number whose bit i - 1 is bits[i], bits[i + 1] its bit i, ...
bitsValue(bits, i) ==
    IF i > Len(bits) THEN 0 ELSE bits[i] * 2 ^ (i - 1) + bitsValue(bits, i + 1)

\* the code of s with the bit sent first in the lowest place
sentFirstLow(lens, s) == bitsValue(sentBits(lens, s), 1)

RECURSIVE encoded(_, _)
\* the bits of the codes of the symbols of msg, in the order they are sent
encoded(lens, msg) ==
    IF msg = <<>> THEN <<>>
    ELSE sentBits(lens, Head(msg)) \o encoded(lens, Tail(msg))

\* the bits as bytes, the first bit in the lowest place of the first byte,
\* the places after the last bit filled with pad
packedBytes(bits, pad) ==
    [k \in 1..((Len(bits) + 7) \div 8) |->
        bitsValue([j \in 1..8 |-> IF 8 * (k - 1) + j <= Len(bits)
                                  THEN bits[8 * (k - 1) + j] ELSE pad], 1)]

\* the bits the codes of the first n symbols of msg take
codedBits(lens, msg, n) == Len(encoded(lens, SubSeq(msg, 1, n)))

\* before makeTable(lens): data holds the codes of the symbols of msg
huffmanEntry(lens, msg, pad) ==
    /\ data = packedBytes(encoded(lens, msg), pad)
    /\ byteOffset = 0
    /\ bitOffset = 0
    /\ outputData = <<>>
    /\ ipc = "table"
    /\ err = ""
    /\ ub = ""
    /\ BFINAL = 0
    /\ BTYPE = -1
    /\ LEN = 0
    /\ NLEN = 0
    /\ lengths = lens
    /\ HLIT = 0
    /\ HDIST = 0
    /\ dynamicLengthTable = EmptyTable
    /\ dynamicDistanceTable = EmptyTable
    /\ copy = NoCopy
    /\ message = msg
    /\ StreamIdle
    /\ RasterIs(rasterBlank("idle"))

\* codes as long as the code lengths get, and longer than a byte
LongCodes ==
    {<<1, 2, 3, 4, 5, 6, 7, 8, 9, 9>>,
     <<9, 9, 8, 7, 6, 5, 4, 0, 3, 2, 1>>,
     <<10, 1, 2, 3, 4, 5, 6, 7, 8, 9, 10>>}

\* codes whose messages are all tried
ShortCodes == {<<2, 1, 3, 3>>, <<3, 3, 0, 2, 2, 2>>}

RECURSIVE codedFrom(_, _)
\* the symbols t - 1, t, ... that have a code, in this order
codedFrom(lens, t) ==
    IF t > Len(lens) THEN <<>>
    ELSE (IF lens[t] > 0 THEN <<t - 1>> ELSE <<>>) \o codedFrom(lens, t + 1)

\* the message of every symbol that has a code, once: in their order, or
\* the last first
everySymbol(lens, back) ==
    [i \in 1..Len(codedFrom(lens, 1)) |->
        codedFrom(lens, 1)[IF back THEN Len(codedFrom(lens, 1)) + 1 - i ELSE i]]

\* every complete set of lengths up to MaxCodeLen of up to MaxSymbols
\* symbols, with the messages of all its symbols; the short codes with
\* every message of up to MaxMessage symbols; the long codes with the
\* messages of three symbols among those of their two longest lengths and
\* of their shortest
InitHuffman ==
    \/ \E n \in 2..MaxSymbols :
          \E v \in [1..n -> 0..MaxCodeLen] :
             /\ CompleteCode(AsSeq(v, n))
             /\ \E pad \in {0, 1}, back \in BOOLEAN :
                   huffmanEntry(AsSeq(v, n), everySymbol(AsSeq(v, n), back), pad)
    \/ \E lens \in ShortCodes, k \in 1..MaxMessage, pad \in {0, 1} :
          \E m \in [1..k -> CodedSymbols(lens)] :
             huffmanEntry(lens, AsSeq(m, k), pad)
    \/ \E lens \in LongCodes, pad \in {0, 1} :
          \E m \in [1..3 -> {s \in CodedSymbols(lens) :
                                lens[s + 1] >= SeqMax(lens) - 1 \/ lens[s + 1] = 1}] :
             huffmanEntry(lens, AsSeq(m, 3), pad)

\* invertTableBits(makeTable(lengths))
BuildTable ==
    /\ ipc = "table"
    /\ dynamicLengthTable' = invertTableBits(makeTable(lengths))
    /\ ipc' = "codes"
    /\ UNCHANGED <<data, byteOffset, bitOffset, outputData, err, ub, BFINAL, BTYPE,
                   LEN, NLEN, lengths, HLIT, HDIST, dynamicDistanceTable, copy,
                   message>>
    /\ UNCHANGED <<streamVars, rasterVars>>

\* a call of readHuffmanCode(table) that returned r
CodeRead(r) ==
    /\ outputData' = Append(outputData, r.val)
    /\ byteOffset' = r.s.byteOffset
    /\ bitOffset' = r.s.bitOffset
    /\ UNCHANGED <<data, ipc, err, ub, BFINAL, BTYPE, LEN, NLEN, lengths, HLIT,
                   HDIST, dynamicLengthTable, dynamicDistanceTable, copy, message>>
    /\ UNCHANGED <<streamVars, rasterVars>>

ReadCode ==
    /\ ipc = "codes"
    /\ Len(outputData) < Len(message)
    /\ CodeRead(readHuffmanCode([data |-> data, byteOffset |-> byteOffset,
                                 bitOffset |-> bitOffset], dynamicLengthTable))

NextHuffman ==
    \/ BuildTable
    \/ ReadCode

SpecHuffman == InitHuffman /\ [][NextHuffman]_vars

(***************************************************************************)
(* Properties of inflate(), checked under SpecInflate                      *)
(***************************************************************************)

\* the offset of the first byte after NLEN, for a stored block whose header
\* ends at the current offset
StoredDataStart == (IF bitOffset > 0 THEN byteOffset + 1 ELSE byteOffset) + 4

\* C1: a stored block whose NLEN is the 16-bit ones complement of its LEN
\* and that is followed by LEN bytes is accepted, and exactly those LEN bytes
\* are appended to the output; a stored block is rejected only when LEN is
\* not the ones complement of NLEN.
C1_StoredBlockAccepted ==
    [][ipc = "stored" =>
          /\ (NLEN' = 65535 - LEN' /\ StoredDataStart + LEN' <= Len(data)) =>
                /\ ipc' \in {"block", "done"}
                /\ outputData' = outputData \o SubSeq(data, StoredDataStart + 1,
                                                      StoredDataStart + LEN')
          /\ ipc' = "failed" => NLEN' # 65535 - LEN']_vars

\* a stored block with NLEN the complement of LEN, all its bytes there,
\* that inflate() rejected
C1_ComplementRejected ==
    /\ BTYPE = 0
    /\ NLEN = 65535 - LEN
    /\ byteOffset + LEN <= Len(data)
    /\ ipc = "failed"
    /\ err = "invalid raw block length"

\* C2: when a block header has BTYPE = 3, inflate() fails: it returns no
\* output and decodes no symbol of that block.
C2_ReservedBlockTypeFails == BTYPE = 3 => ipc = "failed"

\* the block of BTYPE = 3 that holds "a" in the fixed code, decoded with the
\* static tables and returned as the output
C2_ReservedBlockDecoded ==
    /\ BTYPE = 3
    /\ ipc = "done"
    /\ data = GoodHeader \o <<79, 4, 0>>
    /\ outputData = <<97>>

\* C3: when a length/distance pair has a distance greater than the number of
\* bytes output so far, inflate() fails with an error, and no byte before
\* the start of the output is read.
C3_BackReferenceChecked ==
    copy.distance > copy.dst => ipc = "failed" /\ err # "" /\ ub = ""

\* a back-reference whose source starts before the output buffer, copied
\* without a check
C3_CopyFromBeforeOutput ==
    /\ copy.src < 0
    /\ ipc = "undefined"
    /\ ub = "back-reference before the start of the output"

\* what the claim C8 asks of the two header bytes
ZlibHeaderValid ==
    /\ Len(data) >= 2
    /\ data[1] % 16 = 8
    /\ data[1] \div 16 <= 7
    /\ (data[2] \div 32) % 2 = 0
    /\ (data[1] * 256 + data[2]) % 31 = 0

\* C8: inflate() goes past the zlib header if and only if CM = 8,
\* CINFO <= 7, FDICT = 0 and (CMF * 256 + FLG) mod 31 = 0; for every other
\* input, the empty one and those of one byte included, it returns no
\* output and decodes no block.
C8_ZlibHeaderChecked ==
    ipc # "header" =>
        IF ZlibHeaderValid
        THEN ipc = "block" \/ BTYPE # -1
        ELSE ipc = "failed" /\ err # "" /\ BTYPE = -1 /\ outputData = <<>>

\* a header that is accepted, before the first block is read
C8_HeaderAccepted == ipc = "block" /\ BTYPE = -1 /\ byteOffset = 2 /\ ZlibHeaderValid

(***************************************************************************)
(* Properties of the IHDR check, under SpecHeader                          *)
(***************************************************************************)

\* what the claim C7 asks of the first chunk, read from the bytes of the
\* file: its length at 9 .. 12, its type at 13 .. 16, its data from 17
FirstChunkValid ==
    /\ SubSeq(file, 13, 16) = IHDR
    /\ BigEndian(SubSeq(file, 9, 12)) = 13
    /\ BigEndian(SubSeq(file, 17, 20)) >= 1
    /\ BigEndian(SubSeq(file, 21, 24)) >= 1
    /\ file[25] \in {1, 2, 4, 8, 16}
    /\ file[26] \in {0, 2, 3, 4, 6}
    /\ file[27] = 0
    /\ file[28] = 0
    /\ file[29] \in {0, 1}

\* the header these bytes spell
FirstChunkFields ==
    [width |-> BigEndian(SubSeq(file, 17, 20)),
     height |-> BigEndian(SubSeq(file, 21, 24)),
     depth |-> file[25], colorType |-> file[26], compression |-> file[27],
     filter |-> file[28], interlace |-> file[29]]

\* C7: the header is accepted if and only if the first chunk has the type
\* IHDR and the length 13 and its fields have width >= 1, height >= 1, depth
\* in {1, 2, 4, 8, 16}, colour type in {0, 2, 3, 4, 6}, compression 0,
\* filter 0 and interlace in {0, 1}; then the header holds these fields, and
\* in every other case there is no header and readPng() returns no image.
C7_HeaderAcceptedIffValid ==
    ppc \in {"process", "failed"} =>
        IF FirstChunkValid
        THEN ppc = "process" /\ pngInfo = FirstChunkFields
        ELSE ppc = "failed" /\ pngInfo = NoInfo /\ perr # ""

\* an accepted header of the largest width, interlaced
C7_HeaderProduced ==
    /\ ppc = "process"
    /\ pngInfo.width = 2147483647
    /\ pngInfo.depth = 16
    /\ pngInfo.interlace = 1

(***************************************************************************)
(* Properties of readPng() on whole and cut files, under SpecPng           *)
(***************************************************************************)

\* no chunk readPng() has read is a PLTE chunk
NoPaletteChunk == \A i \in 1..Len(chunks) : chunks[i].type # PLTE

\* C6: when the header has the colour type 3 and the chunks hold no PLTE
\* chunk, readPng() returns no image (in a run with no undefined operation,
\* after which it may do anything).
C6_MissingPaletteFails ==
    (ppc = "done" /\ pub = "") => ~(pngInfo.colorType = 3 /\ NoPaletteChunk)

\* a whole file of colour type 3 without a PLTE chunk, decoded to an image
\* with nothing undefined on the way
C6_DecodedWithoutPalette ==
    /\ ppc = "done"
    /\ pub = ""
    /\ good
    /\ fpos = Len(file)
    /\ pngInfo.colorType = 3
    /\ NoPaletteChunk
    /\ Len(imageData) = 4

RECURSIVE framing(_, _)
\* where the chunk records of the bytes f stop being whole, from the offset
\* at of a record: [at, iend], iend telling that an IEND record was whole
framing(f, at) ==
    IF at + 8 > Len(f) THEN [at |-> at, iend |-> FALSE]
    ELSE IF at + 12 + BigEndian(SubSeq(f, at + 1, at + 4)) > Len(f)
    THEN [at |-> at, iend |-> FALSE]
    ELSE IF SubSeq(f, at + 5, at + 8) = IEND
    THEN [at |-> at + 12 + BigEndian(SubSeq(f, at + 1, at + 4)), iend |-> TRUE]
    ELSE framing(f, at + 12 + BigEndian(SubSeq(f, at + 1, at + 4)))

\* the file ends inside a chunk record, before an IEND chunk
EndsMidChunk ==
    /\ Len(file) >= 8
    /\ SubSeq(file, 1, 8) = pngSignature
    /\ ~framing(file, 8).iend
    /\ framing(file, 8).at < Len(file)

\* C9: if the file ends in the middle of a chunk record, before an IEND
\* chunk, readPng() fails with an error and returns no image: it does not
\* crash, its first chunk is not parsed as a header when that is the chunk
\* cut, and it goes no further than the header.
C9_TruncatedInputFails ==
    EndsMidChunk =>
        /\ ppc \in {"signature", "chunks", "header", "process", "failed", "unfollowed"}
        /\ ppc = "process" => framing(file, 8).at > 8
        /\ ppc = "failed" => perr # ""

\* a file cut inside a chunk record and decoded to an image, with nothing
\* undefined on the way
C9_DecodedTruncated ==
    /\ EndsMidChunk
    /\ ppc = "done"
    /\ pub = ""
    /\ Len(imageData) = 4

(***************************************************************************)
(* Properties of the raster, under SpecRaster                              *)
(***************************************************************************)

\* the bytes a pixel takes in imageData before the pixels are widened to
\* RGBA: one byte for each sample of 8 bits or less, two for one of 16
pixelBytes(info) == CeilOf(samplesPerPixel(info) * info.depth, 8)

\* the factor that widens a sample of a depth below 8 to a byte; an index
\* into the palette is not widened
sampleScale(info) ==
    IF info.colorType = 3 THEN 1
    ELSE CASE info.depth = 1 -> 255
           [] info.depth = 2 -> 85
           [] info.depth = 4 -> 17
           [] OTHER -> 1

\* the byte j of the pixel (x, y) of the test image seed in imageData,
\* before the pixels are widened
rasterByte(seed, info, x, y, j) ==
    IF info.depth = 8 THEN sampleOf(seed, x, y, j, 8)
    ELSE IF info.depth = 16
    THEN IF j % 2 = 0 THEN sampleOf(seed, x, y, j \div 2, 16) \div 256
         ELSE sampleOf(seed, x, y, j \div 2, 16) % 256
    ELSE (sampleScale(info) * sampleOf(seed, x, y, 0, info.depth)) % 256

\* the pixel (x, y) is one of the grid g
inGrid(g, x, y) ==
    /\ x >= g.sx
    /\ (x - g.sx) % g.kx = 0
    /\ y >= g.sy
    /\ (y - g.sy) % g.ky = 0

\* the x and the y of the pixel that holds the byte k of imageData, k from 1
pixelX(info, k) == ((k - 1) \div pixelBytes(info)) % info.width
pixelY(info, k) == ((k - 1) \div pixelBytes(info)) \div info.width

\* the step wrote the byte k of imageData once more, and wrote there what
\* the test image seed has for it
byteWritten(seed, k) ==
    /\ imageData'[k] = rasterByte(seed, pngInfo, pixelX(pngInfo, k), pixelY(pngInfo, k),
                                  (k - 1) % pixelBytes(pngInfo))
    /\ writes'[k] = writes[k] + 1

byteKept(k) == imageData'[k] = imageData[k] /\ writes'[k] = writes[k]

\* the turn of the loop over the passes for the grid g of the test image
\* seed: an empty grid is skipped; of another, the pass reads the scanlines
\* and writes its sample (col, row) to the pixel
\* (sx + col kx, sy + row ky), and no other byte
passPlaced(seed, g) ==
    IF g.w = 0 \/ g.h = 0
    THEN pos' = pos /\ imageData' = imageData /\ writes' = writes
    ELSE /\ passCall'.width = g.w
         /\ passCall'.height = g.h
         /\ pos' = pos + gridBytes(pngInfo, g)
         /\ \A k \in 1..Len(imageData) :
               IF /\ k <= pngInfo.width * pngInfo.height * pixelBytes(pngInfo)
                  /\ inGrid(g, pixelX(pngInfo, k), pixelY(pngInfo, k))
               THEN byteWritten(seed, k)
               ELSE byteKept(k)

\* the turns of the loop over the passes, for the test images
Adam7PassPlaced ==
    (ppc = "lines" /\ pngInfo.interlace = 1) =>
        \A seed \in RasterSeeds :
           decompressedData = scanlines(seed, pngInfo, 0) =>
               passPlaced(seed, gridsOf(pngInfo)[pass + 1])

\* after the seven passes every byte of every pixel was written once
Adam7WritesOnce ==
    (pngInfo.interlace = 1 /\ pub = "" /\ ppc \in {"depth16", "promote", "trans", "done"}) =>
        \A k \in 1..Len(writes) :
           writes[k] = IF k <= pngInfo.width * pngInfo.height * pixelBytes(pngInfo)
                       THEN 1 ELSE 0

\* readPng() when inflate() has returned the scanlines of the test image
\* seed with the header info, n steps later
decodedAfter(seed, info, n) ==
    rasterSteps(rasterEntry(info, paletteR, paletteG, paletteB, paletteA,
                            transR, transG, transB, scanlines(seed, info, 0)),
                0, n)

\* the interlaced test images have, when their pixels are widened and when
\* they are returned, the raster of the image that is not interlaced
Adam7SameRaster ==
    (pngInfo.interlace = 1 /\ pub = ""
        /\ (ppc = "trans" \/ (ppc = "done" /\ transR < 0))) =>
        \A seed \in RasterSeeds :
           decompressedData = scanlines(seed, pngInfo, 0) =>
               returnedPixels(RasterState) =
                   returnedPixels(decodedAfter(seed, [pngInfo EXCEPT !.interlace = 0],
                                               IF ppc = "trans" THEN 4 ELSE 5))

\* C4: for every size W x H of an interlaced image the seven passes write
\* every pixel once: the pass p has ceil((W - startX) / strideX) columns and
\* ceil((H - startY) / strideY) rows with the constants of the format, is
\* skipped when either is zero, and writes its sample (col, row) to the
\* pixel (startX + col strideX, startY + row strideY); and the image has the
\* raster of the image with the same pixels that is not interlaced.
C4_Adam7CoversImage ==
    /\ [](Adam7WritesOnce /\ Adam7SameRaster)
    /\ [][Adam7PassPlaced]_vars

\* an interlaced image of 9 x 9 pixels returned: each pass has run, the
\* first two with two columns or two rows
C4_InterlacedReturned ==
    /\ pngInfo.interlace = 1
    /\ pngInfo.width = 9
    /\ pngInfo.height = 9
    /\ pngInfo.depth = 1
    /\ ppc = "done"
    /\ pub = ""
    /\ pass = 7
    /\ decompressedData = scanlines(77, pngInfo, 0)

\* the 16-bit sample c of the pixel k of an image of colour type 2 that is
\* not interlaced, read from the inflated stream
sample16(k, c) ==
    256 * decompressedData[(k \div pngInfo.width) * (6 * pngInfo.width + 1)
                           + 6 * (k % pngInfo.width) + 2 * c + 2]
    + decompressedData[(k \div pngInfo.width) * (6 * pngInfo.width + 1)
                       + 6 * (k % pngInfo.width) + 2 * c + 3]

\* the pixel k after the step: transparent if and only if its three 16-bit
\* samples are those of the tRNS chunk, its colours their high bytes
keyed16(k) ==
    /\ imageData'[4 * k + 4] =
          IF <<sample16(k, 0), sample16(k, 1), sample16(k, 2)>> = <<transR, transG, transB>>
          THEN 0 ELSE 255
    /\ imageData'[4 * k + 1] = sample16(k, 0) \div 256
    /\ imageData'[4 * k + 2] = sample16(k, 1) \div 256
    /\ imageData'[4 * k + 3] = sample16(k, 2) \div 256

\* every scanline of an image that is not interlaced has the filter type 0
PlainScanlines ==
    /\ Len(decompressedData) = gridBytes(pngInfo, gridsOf(pngInfo)[1])
    /\ \A y \in 0..pngInfo.height - 1 :
          decompressedData[y * (rowBytesOf(pngInfo, gridsOf(pngInfo)[1]) + 1) + 1] = 0

\* C5: for the colour type 2 with the depth 16 and a tRNS chunk, a pixel of
\* the image returned has alpha 0 if and only if its 16-bit samples
\* (R, G, B) are the three 16-bit values of the tRNS chunk, and alpha 255
\* otherwise; its R, G and B are the high bytes of the samples.
C5_KeyedOnFullSamples ==
    [][(ppc = "trans" /\ pngInfo.colorType = 2 /\ pngInfo.depth = 16
          /\ pngInfo.interlace = 0 /\ transR >= 0 /\ PlainScanlines) =>
          /\ ppc' = "done"
          /\ \A k \in 0..pngInfo.width * pngInfo.height - 1 : keyed16(k)]_vars

\* r(x, y) of the claim C10: the reconstructed byte x of the scanline y of
\* the last pass, 0 outside of it; bw is the width of a scanline in bytes
reconAt(x, y, bw) == IF x < 0 \/ y < 0 THEN 0 ELSE passData[x + y * bw + 1]

\* the predictor of Paeth
PaethOf(a, b, c) ==
    IF Abs(a + b - c - a) <= Abs(a + b - c - b) /\ Abs(a + b - c - a) <= Abs(a + b - c - c)
    THEN a
    ELSE IF Abs(a + b - c - b) <= Abs(a + b - c - c) THEN b
    ELSE c

\* the byte the claim C10 gives for the filter type f
reconOf(f, fb, a, b, c) ==
    CASE f = 0 -> fb
      [] f = 1 -> (fb + a) % 256
      [] f = 2 -> (fb + b) % 256
      [] f = 3 -> (fb + (a + b) \div 2) % 256
      [] f = 4 -> (fb + PaethOf(a, b, c)) % 256

\* the byte x of the scanline y of the last pass is the one of the claim;
\* the scanline starts at the offset at of the inflated stream
reconstructed(x, y, bw, bp, at) ==
    decompressedData[at + 1] \in 0..4 =>
        passData[x + y * bw + 1] =
            reconOf(decompressedData[at + 1], decompressedData[at + x + 2],
                    reconAt(x - bp, y, bw), reconAt(x, y - 1, bw),
                    reconAt(x - bp, y - 1, bw))

scanlinesReconstructed(bw, bp) ==
    \A y \in 0..passCall.height - 1 :
       \A x \in 0..bw - 1 : reconstructed(x, y, bw, bp, passStart + y * (bw + 1))

\* C10: every byte (x, y) of the scanlines of a pass with the filter byte f
\* in 0 .. 4 is reconstructed to fb (f = 0), fb + a (1), fb + b (2),
\* fb + floor((a + b) / 2) with a + b not wrapped (3), fb + Paeth(a, b, c)
\* (4), modulo 256, where a = r(x - bpp, y), b = r(x, y - 1) and
\* c = r(x - bpp, y - 1) are bytes of the same pass, 0 outside of it, and
\* bpp = ceil(channels depth / 8).
C10_ScanlinesReconstructed ==
    (passCall # NoCall /\ pub # "nextByte read past the end of decompressedData") =>
        scanlinesReconstructed(
            CeilOf(samplesPerPixel(pngInfo) * pngInfo.depth * passCall.width, 8),
            pixelBytes(pngInfo))

\* a pass of an interlaced image whose first scanline has the filter type
\* 3 and whose second has the filter type 4, reconstructed
C10_PaethAfterAverage ==
    /\ passCall # NoCall
    /\ pub = ""
    /\ pngInfo.interlace = 1
    /\ passCall.height >= 2
    /\ passCall.width >= 2
    /\ passStart > 0
    /\ decompressedData[passStart + 1] = 3
    /\ decompressedData[passStart + passCall.width * pixelBytes(pngInfo) + 2] = 4
    /\ pixelBytes(pngInfo) = 3

(***************************************************************************)
(* The length of the inflated stream, checked under SpecPng                *)
(***************************************************************************)
\* the bytes the scanlines of an image take: over the passes that are not
\* empty, (the bytes of a scanline + 1) * the scanlines of the pass
streamBytes(info) == gridStart(info, gridsOf(info), Len(gridsOf(info)) + 1)

ReadPastInflated == "nextByte read past the end of decompressedData"

\* C11: in every decode that reaches the reconstruction of the raster the
\* inflated stream has as many bytes as the scanlines of the passes take,
\* the loops of readRawImage consume exactly that many, and nextByte never
\* reads at an index at or beyond the length of the inflated stream.
C11_InflatedLengthExact ==
    /\ ppc = "lines" => Len(decompressedData) = streamBytes(pngInfo)
    /\ ppc \in {"depth16", "promote", "trans"} =>
          pos = streamBytes(pngInfo) /\ pos = Len(decompressedData)
    /\ pub # ReadPastInflated

\* a file whose IDAT chunk inflates to one byte, for an image whose one
\* scanline takes two: nextByte has read decompressedData[1]
C11_ReadPastInflated ==
    /\ ppc = "undefined"
    /\ pub = ReadPastInflated
    /\ file = wholeFile(0, <<>>, <<>>, <<120, 1, 99, 0, 0, 0, 1, 0, 1>>)
    /\ decompressedData = <<0>>
    /\ streamBytes(pngInfo) = 2
    /\ pos = 1

(***************************************************************************)
(* Properties of the Huffman tables, checked under SpecHuffman             *)
(***************************************************************************)
\* the table built from lengths returns {s, L} for every value of maxBits
\* bits whose low L bits are the code of s, the bit sent first lowest
TableFindsCodes ==
    \A s \in CodedSymbols(lengths) :
       \A rest \in 0..(2 ^ (dynamicLengthTable.maxBits - lengths[s + 1]) - 1) :
          decodeCode(dynamicLengthTable,
                     sentFirstLow(lengths, s) + rest * 2 ^ lengths[s + 1])
             = HuffmanCode(s, lengths[s + 1])

\* the calls of readHuffmanCode so far returned the first symbols of the
\* message and moved the cursor by the bits of their codes
CodesReadBack ==
    /\ Len(outputData) <= Len(message)
    /\ outputData = SubSeq(message, 1, Len(outputData))
    /\ 8 * byteOffset + bitOffset = codedBits(lengths, message, Len(outputData))

\* C12: for the lengths of a complete canonical prefix code, the table of
\* makeTable and invertTableBits, looked up with any value of maxBits bits
\* whose low L bits are the code of a symbol s of length L > 0 sent first
\* bit lowest, returns {s, L} whatever the other bits are; readHuffmanCode
\* decodes the codes of a sequence of symbols to that sequence and moves the
\* cursor by exactly L bits for each symbol.
C12_CodesDecodeToSymbols ==
    ipc = "codes" =>
       /\ dynamicLengthTable.maxBits = SeqMax(lengths)
       /\ TableFindsCodes
       /\ CodesReadBack

\* three symbols are read back from three bytes through a table of 10
\* bits: two codes of 10 bits, which differ in their last bit, and one of
\* 1 bit
C12_LongCodesReadBack ==
    /\ ipc = "codes"
    /\ dynamicLengthTable.maxBits = 10
    /\ outputData = <<0, 10, 1>>
    /\ message = outputData
    /\ byteOffset = 2
    /\ bitOffset = 5

(***************************************************************************)
(* Termination of inflate(), checked under SpecInflate                     *)
(***************************************************************************)
\* what the next read of the stream depends on: the offset, or the end of
\* the data for every offset at or after it, where readBits returns 0
readsNext ==
    IF byteOffset >= Len(data) THEN <<Len(data), 0>> ELSE <<byteOffset, bitOffset>>

\* C13: inflate terminates on every finite input: the loop over the blocks
\* and the loop over the symbols of a block end, with a final block or with
\* an error, also when the input is exhausted before the symbol 256 and when
\* a dynamic block declares literal/length codes whose lengths are all 0.
\* A call that ends has no turn of the loop over the symbols that stays in
\* the loop and leaves unchanged what the next turn reads: the tables do not
\* change inside a block, so the next turn would decode the same symbol, and
\* so would every turn after it.
C13_SymbolLoopEnds ==
    [][(ipc = "symbol" /\ ipc' = "symbol") => readsNext' # readsNext]_vars

\* the block EndlessZeros: the table is built, the input is exhausted, and
\* the loop goes on decoding the literal 0 from the bits past the end
C13_ZerosPastTheEnd ==
    /\ data = GoodHeader \o EndlessZeros
    /\ ipc = "symbol"
    /\ BFINAL = 1
    /\ BTYPE = 2
    /\ dynamicLengthTable.maxBits = 1
    /\ byteOffset > Len(data)
    /\ outputData = Repeat(MaxOut + 1, 0)

(***************************************************************************)
(* The promotion to RGBA, checked under SpecRaster                         *)
(***************************************************************************)
\* the four bytes the pixel k is promoted to, from the samples of img
promotedPixel(img, k) ==
    CASE pngInfo.colorType = 0 -> <<img[k + 1], img[k + 1], img[k + 1], 255>>
      [] pngInfo.colorType = 4 ->
            <<img[2 * k + 1], img[2 * k + 1], img[2 * k + 1], img[2 * k + 2]>>
      [] pngInfo.colorType = 2 ->
            <<img[3 * k + 1], img[3 * k + 2], img[3 * k + 3], 255>>
      [] pngInfo.colorType = 3 ->
            <<paletteR[img[k + 1] + 1], paletteG[img[k + 1] + 1],
              paletteB[img[k + 1] + 1], paletteA[img[k + 1] + 1]>>
      [] OTHER -> SubSeq(img, 4 * k + 1, 4 * k + 4)

\* C14: the promotion to RGBA in place, from the last pixel to the first,
\* never reads a byte it has overwritten: for every pixel k in [0, W * H)
\* the bytes 4k .. 4k + 3 after it are the promotion of the samples pixel k
\* had before it: (g, g, g, 255) for the colour type 0, (g, g, g, a) for 4,
\* (r, g, b, 255) for 2, the palette's entry for 3, the same bytes for 6.
C14_PromotedFromOriginal ==
    [][(ppc = "promote" /\ ppc' = "trans") =>
          \A k \in 0..(pngInfo.width * pngInfo.height - 1) :
             SubSeq(imageData', 4 * k + 1, 4 * k + 4) = promotedPixel(imageData, k)]_vars

\* an image of 5 x 5 pixels of 8-bit RGB is promoted: its first two pixels
C14_RGBPromoted ==
    /\ ppc = "trans"
    /\ pub = ""
    /\ pngInfo = rasterInfo(5, 5, 8, 2, 0)
    /\ decompressedData = scanlines(77, pngInfo, 0)
    /\ SubSeq(imageData, 1, 8) = <<77, 80, 83, 255, 84, 87, 90, 255>>
    /\ SubSeq(imageData, 97, 100) = <<133, 136, 139, 255>>

(***************************************************************************)
(* The samples of the depths below 8, checked under SpecRaster             *)
(***************************************************************************)
\* the field of d bits at the place n of a byte, the place 0 in the high bits
fieldOf(byte, n, d) == (byte \div 2 ^ (8 - d * (n + 1))) % 2 ^ d

\* the sample col of the scanline row of the call of readRawImage the step
\* made: the field col mod (8 / d) of the byte floor(col d / 8) of the
\* scanline, every scanline taking ceil(d width / 8) bytes of the buffer
sampleField(col, row) ==
    fieldOf(passData'[row * CeilOf(pngInfo.depth * passCall'.width, 8)
                      + (col * pngInfo.depth) \div 8 + 1],
            col % (8 \div pngInfo.depth), pngInfo.depth)

\* the byte of imageData the call wrote for its pixel (col, row)
sampleWritten(col, row) ==
    imageData'[(passCall'.startX + col * passCall'.strideX)
               + (passCall'.startY + row * passCall'.strideY) * pngInfo.width + 1]

\* C15: for a depth d below 8 with one channel and any width of the pass,
\* below 8 / d or not a multiple of it, the value written for the pixel
\* (col, row) of the pass is scale times the field of d bits at the place
\* col mod (8 / d), counted from the high bits, of the byte floor(col d / 8)
\* of the scanline row, scale being 255, 85, 17 for d = 1, 2, 4 and 1 for
\* the colour type 3: every scanline starts at a new byte, and no sample
\* comes from the bits that pad a scanline or from another scanline.
C15_SamplesUnpacked ==
    [][(ppc = "lines" /\ pngInfo.depth < 8 /\ pos' > pos /\ pub' = "") =>
          \A row \in 0..(passCall'.height - 1), col \in 0..(passCall'.width - 1) :
             sampleWritten(col, row)
                = (sampleScale(pngInfo) * sampleField(col, row)) % 256]_vars

\* the sixth pass of an interlaced image of 9 x 9 pixels of 1 bit: 5
\* scanlines of 4 samples, each in the high half of a byte of its own
C15_NarrowPassUnpacked ==
    /\ ppc = "lines"
    /\ pub = ""
    /\ pass = 6
    /\ pngInfo = rasterInfo(9, 9, 1, 0, 1)
    /\ decompressedData = scanlines(0, pngInfo, 0)
    /\ passCall = rawImageCall(4, 5, 1, 0, 2, 2)
    /\ passData = <<240, 240, 240, 240, 240>>
    /\ imageData[2] = 255
    /\ imageData[8 * 9 + 8] = 255

====
